---------------------------- MODULE Spec2Model ----------------------------
(***************************************************************************)
(* A model of the NJSBCL invitation automation: the fixture extractor      *)
(* (scraper.py), the contact directory (contacts_parser.py), the invitation*)
(* drafter (email_manager.py) and the orchestrator (main.py).              *)
(*                                                                         *)
(* Python strings are sequences of one-character strings, so that strip,   *)
(* split, lower, "in" and the validator's regular expression are computed  *)
(* character by character.  None is the model value None.                  *)
(***************************************************************************)
EXTENDS Integers, Sequences, FiniteSets, TLC

None == "None"
\* None where the other values are texts (and are collected in sets of texts)
NoText == <<"None">>

(***************************************************************************)
(* Characters and str methods.                                             *)
(***************************************************************************)
UpperSeq == <<"A","B","C","D","E","F","G","H","I","J","K","L","M",
              "N","O","P","Q","R","S","T","U","V","W","X","Y","Z">>
LowerSeq == <<"a","b","c","d","e","f","g","h","i","j","k","l","m",
              "n","o","p","q","r","s","t","u","v","w","x","y","z">>
UpperChars == {UpperSeq[i] : i \in 1..26}
LowerChars == {LowerSeq[i] : i \in 1..26}
DigitSeq   == <<"0","1","2","3","4","5","6","7","8","9">>
DigitChars == {DigitSeq[i] : i \in 1..10}
Whitespace == {" ", "\t", "\n", "\r"}

\* str.lower() / str.upper() on one character
LowerChar(c) == IF c \in UpperChars
                THEN LowerSeq[CHOOSE i \in 1..26 : UpperSeq[i] = c]
                ELSE c
UpperChar(c) == IF c \in LowerChars
                THEN UpperSeq[CHOOSE i \in 1..26 : LowerSeq[i] = c]
                ELSE c
lower(s) == [i \in 1..Len(s) |-> LowerChar(s[i])]
upper(s) == [i \in 1..Len(s) |-> UpperChar(s[i])]

\* Python's "a in b" on strings: a occurs in b as a contiguous substring
contains(b, a) ==
    \E k \in 0..(Len(b) - Len(a)) : \A i \in 1..Len(a) : b[k + i] = a[i]

\* str.strip(): leading and trailing whitespace removed
RECURSIVE lstrip(_)
lstrip(s) == IF s # <<>> /\ Head(s) \in Whitespace THEN lstrip(Tail(s)) ELSE s
RECURSIVE rstrip(_)
rstrip(s) == IF s # <<>> /\ s[Len(s)] \in Whitespace
             THEN rstrip(SubSeq(s, 1, Len(s) - 1)) ELSE s
strip(s) == rstrip(lstrip(s))

\* str.split(sep): the fields between the occurrences of the one-character sep
RECURSIVE split_on(_, _)
split_on(s, sep) ==
    IF \A i \in 1..Len(s) : s[i] # sep THEN <<s>>
    ELSE LET k == CHOOSE i \in 1..Len(s) :
                      s[i] = sep /\ \A j \in 1..(i - 1) : s[j] # sep
         IN  <<SubSeq(s, 1, k - 1)>> \o split_on(SubSeq(s, k + 1, Len(s)), sep)

\* str.split(): the maximal runs of non-whitespace characters
RECURSIVE split_ws(_)
split_ws(s) ==
    LET t == lstrip(s) IN
    IF t = <<>> THEN <<>>
    ELSE IF \A i \in 1..Len(t) : t[i] \notin Whitespace THEN <<t>>
    ELSE LET k == CHOOSE i \in 1..Len(t) :
                      t[i] \in Whitespace /\ \A j \in 1..(i - 1) : t[j] \notin Whitespace
         IN  <<SubSeq(t, 1, k - 1)>> \o split_ws(SubSeq(t, k + 1, Len(t)))

\* int(s): <<value>> for an optionally signed decimal numeral (surrounding
\* whitespace allowed), None for the strings on which int() raises ValueError
RECURSIVE digits_value(_)
digits_value(s) ==
    IF s = <<>> THEN 0
    ELSE 10 * digits_value(SubSeq(s, 1, Len(s) - 1))
         + ((CHOOSE i \in 1..10 : DigitSeq[i] = s[Len(s)]) - 1)
int(s) ==
    LET t    == strip(s)
        sign == t # <<>> /\ Head(t) \in {"+", "-"}
        body == IF sign THEN Tail(t) ELSE t
    IN  IF body = <<>> \/ \E i \in 1..Len(body) : body[i] \notin DigitChars
        THEN None
        ELSE IF sign /\ Head(t) = "-" THEN <<0 - digits_value(body)>>
        ELSE <<digits_value(body)>>

(***************************************************************************)
(* datetime.date: validation, ordinal, weekday, strftime('%A').            *)
(***************************************************************************)
is_leap(y) == y % 4 = 0 /\ (y % 100 # 0 \/ y % 400 = 0)
days_in_month(y, m) ==
    IF m = 2 THEN (IF is_leap(y) THEN 29 ELSE 28)
    ELSE IF m \in {4, 6, 9, 11} THEN 30 ELSE 31
days_before_year(y) ==
    LET p == y - 1 IN p * 365 + (p \div 4) - (p \div 100) + (p \div 400)
RECURSIVE days_before_month(_, _)
days_before_month(y, m) ==
    IF m = 1 THEN 0 ELSE days_before_month(y, m - 1) + days_in_month(y, m - 1)

\* date(year, month, day) as <<year, month, day>>: None where the constructor
\* raises ValueError
date(y, m, d) ==
    IF y \in 1..9999 /\ m \in 1..12 /\ d \in 1..days_in_month(y, m)
    THEN <<y, m, d>>
    ELSE None
toordinal(dt) == days_before_year(dt[1]) + days_before_month(dt[1], dt[2]) + dt[3]
\* date.weekday(): Monday is 0, Sunday is 6
weekday(dt) == (toordinal(dt) + 6) % 7
\* a <= b on dates
date_le(a, b) ==
    \/ a[1] < b[1]
    \/ a[1] = b[1] /\ a[2] < b[2]
    \/ a[1] = b[1] /\ a[2] = b[2] /\ a[3] <= b[3]

DayNames == << <<"M","o","n","d","a","y">>,
               <<"T","u","e","s","d","a","y">>,
               <<"W","e","d","n","e","s","d","a","y">>,
               <<"T","h","u","r","s","d","a","y">>,
               <<"F","r","i","d","a","y">>,
               <<"S","a","t","u","r","d","a","y">>,
               <<"S","u","n","d","a","y">> >>
\* date.strftime('%A')
strftime_A(dt) == DayNames[weekday(dt) + 1]

(***************************************************************************)
(* config.py                                                               *)
(***************************************************************************)
TEAM_NAME == <<"S","P","A","R","T","A"," ","X","I">>

\* A dict-valued result that is None
NoneDict == [none |-> TRUE]

(***************************************************************************)
(* The parsed fixtures page (scraper.py).                                  *)
(*                                                                         *)
(* A document is the sequence of its elements in document order; element 1 *)
(* is the BeautifulSoup object itself.  Each element is                    *)
(*   [tag, class, parent, string, card]                                    *)
(* with parent the index of its parent (0: None).  A fixture card          *)
(* (div.schedule-all) carries in card what the parser reads below it:      *)
(*   sch_time       div.sch-time is present                                *)
(*   h4, h2, h5     the text of its h4 / h2 / h5, NoText when absent       *)
(*   schedule_text  div.schedule-text is present                           *)
(*   h3             its h3 is present                                      *)
(*   links          the texts of the h3's a elements, in order             *)
(*   schedule_logo  div.schedule-logo is present                           *)
(*   imgs           the src of its img elements, in order (None: no src)   *)
(***************************************************************************)
UPCOMING_MATCHES ==
    <<"U","P","C","O","M","I","N","G"," ","M","A","T","C","H","E","S">>
SearchDepth == 10

RECURSIVE is_descendant(_, _, _)
\* element k lies strictly below element n
is_descendant(doc, k, n) ==
    IF k = 0 \/ doc[k].parent = 0 THEN FALSE
    ELSE doc[k].parent = n \/ is_descendant(doc, doc[k].parent, n)

is_schedule_entry(node) == node.tag = "div" /\ node.class = "schedule-all"

\* container.find_all('div', class_='schedule-all'): indices in document order
RECURSIVE find_all_entries_from(_, _, _)
find_all_entries_from(doc, container, k) ==
    IF k > Len(doc) THEN <<>>
    ELSE (IF is_schedule_entry(doc[k]) /\ is_descendant(doc, k, container)
          THEN <<k>> ELSE <<>>)
         \o find_all_entries_from(doc, container, k + 1)
find_all_entries(doc, container) == find_all_entries_from(doc, container, 1)

\* soup.find_all('span', string=lambda text: text and 'UPCOMING MATCHES' in text.upper())
is_upcoming_button(node) ==
    /\ node.tag = "span"
    /\ node.string # NoText
    /\ node.string # <<>>
    /\ contains(upper(node.string), UPCOMING_MATCHES)
RECURSIVE find_upcoming_buttons_from(_, _)
find_upcoming_buttons_from(doc, k) ==
    IF k > Len(doc) THEN <<>>
    ELSE (IF is_upcoming_button(doc[k]) THEN <<k>> ELSE <<>>)
         \o find_upcoming_buttons_from(doc, k + 1)

RECURSIVE ascend_unbounded(_, _, _)
\* a variant that climbs to the root
ascend_unbounded(doc, container, steps) ==
    LET p == doc[container].parent IN
    IF p = 0 THEN 0
    ELSE IF find_all_entries(doc, p) # <<>> THEN p
    ELSE ascend_unbounded(doc, p, steps)

\* the inner loop "for _ in range(10)": the first of the next `steps` ancestors
\* of container that has a fixture card below it, 0 when there is none
RECURSIVE ascend(_, _, _)
ascend(doc, container, steps) ==
    IF steps = 0 THEN 0
    ELSE LET p == doc[container].parent IN
         IF p = 0 THEN 0
         ELSE IF find_all_entries(doc, p) # <<>> THEN p
         ELSE ascend(doc, p, steps - 1)

\* the outer loop "for button in upcoming_buttons"
RECURSIVE search_buttons(_, _)
search_buttons(doc, buttons) ==
    IF buttons = <<>> THEN 0
    ELSE LET c == ascend(doc, Head(buttons), SearchDepth) IN
         IF c # 0 THEN c ELSE search_buttons(doc, Tail(buttons))

\* WebScraper._find_upcoming_matches_section: the index of the container, 0 for None
_find_upcoming_matches_section(doc) ==
    LET upcoming_buttons == find_upcoming_buttons_from(doc, 1) IN
    IF upcoming_buttons = <<>> THEN 0
    ELSE search_buttons(doc, upcoming_buttons)

MonthNames == << <<"J","a","n">>, <<"F","e","b">>, <<"M","a","r">>, <<"A","p","r">>,
                 <<"M","a","y">>, <<"J","u","n">>, <<"J","u","l">>, <<"A","u","g">>,
                 <<"S","e","p">>, <<"O","c","t">>, <<"N","o","v">>, <<"D","e","c">> >>
\* month_map.get(month_str, default)
month_map_get(month_str, default) ==
    IF \E i \in 1..12 : MonthNames[i] = month_str
    THEN CHOOSE i \in 1..12 : MonthNames[i] = month_str
    ELSE default

\* a variant without the cross-check
weekday_matches_any(game_date, day_name) == TRUE

\* the weekday cross-check of _extract_date
weekday_matches(game_date, day_name) == strftime_A(game_date) = day_name

\* WebScraper._extract_date: the date of a card, or None
_extract_date(entry) ==
    IF ~entry.sch_time THEN None
    ELSE IF entry.h4 = NoText \/ entry.h2 = NoText \/ entry.h5 = NoText THEN None
    ELSE LET day_name   == strip(entry.h4)
             day_num    == strip(entry.h2)
             month_year == strip(entry.h5)
             parts      == split_ws(month_year)
         IN  IF Len(parts) # 2 THEN None
             ELSE LET month == month_map_get(parts[1], 1)
                      year  == int(parts[2])
                      day   == int(day_num)
                  IN  IF year = None \/ day = None THEN None
                      ELSE LET game_date == date(year[1], month, day[1]) IN
                           IF game_date = None THEN None
                           ELSE IF weekday_matches(game_date, day_name)
                           THEN game_date
                           ELSE None

Placeholders == { <<"v">>, <<"v","s">>, <<"v","e","r","s","u","s">> }
\* the filter of lines 256-259 on one link text
is_valid_team_link(link) ==
    LET team_name == strip(link) IN
    team_name # <<>> /\ lower(team_name) \notin Placeholders

\* variants: the own team is recognised by its exact spelling only; no name
\* is taken for the own team
is_own_team_exact(team_name) == team_name = TEAM_NAME
is_own_team_never(team_name) == FALSE

\* line 282: team_name.lower() == config.TEAM_NAME.lower()
is_own_team(team_name) == lower(team_name) = lower(TEAM_NAME)

\* the loop of lines 278-292 from link i on; acc holds opponent_name,
\* opponent_logo and sparta_logo
RECURSIVE match_logos(_, _, _, _)
match_logos(valid_team_links, logo_imgs, i, acc) ==
    IF i > Len(valid_team_links) THEN acc
    ELSE LET team_name == strip(valid_team_links[i]) IN
         IF is_own_team(team_name)
         THEN match_logos(valid_team_links, logo_imgs, i + 1,
                  IF i <= Len(logo_imgs)
                  THEN [acc EXCEPT !.sparta_logo = logo_imgs[i]]
                  ELSE acc)
         ELSE match_logos(valid_team_links, logo_imgs, i + 1,
                  IF i <= Len(logo_imgs)
                  THEN [acc EXCEPT !.name = team_name, !.logo = logo_imgs[i]]
                  ELSE [acc EXCEPT !.name = team_name])

\* WebScraper._extract_opponent_and_logo: [name, logo, sparta_logo] or NoneDict
_extract_opponent_and_logo(entry) ==
    IF ~entry.schedule_text THEN NoneDict
    ELSE IF ~entry.h3 THEN NoneDict
    ELSE LET valid_team_links == SelectSeq(entry.links, is_valid_team_link)
             logo_imgs == IF entry.schedule_logo THEN entry.imgs ELSE <<>>
         IN  IF Len(valid_team_links) < 2 THEN NoneDict
             ELSE LET r == match_logos(valid_team_links, logo_imgs, 1,
                               [name |-> None, logo |-> None, sparta_logo |-> None])
                  IN  IF r.name # None /\ r.logo # None /\ r.logo # ""
                      THEN r
                      ELSE NoneDict

\* WebScraper._parse_game_entry: the game record of a card, or NoneDict
_parse_game_entry(entry) ==
    LET game_date == _extract_date(entry) IN
    IF game_date = None THEN NoneDict
    ELSE LET opponent_info == _extract_opponent_and_logo(entry) IN
         IF opponent_info = NoneDict THEN NoneDict
         ELSE [opponent      |-> opponent_info.name,
               date          |-> game_date,
               opponent_logo |-> opponent_info.logo,
               sparta_logo   |-> opponent_info.sparta_logo]

\* a variant that lets a game dated today through
_is_valid_sunday_game_today(game_info, today) ==
    LET game_date == game_info.date IN
    IF date_le(game_date, today) /\ game_date # today THEN FALSE
    ELSE IF weekday(game_date) # 6 THEN FALSE
    ELSE TRUE

\* WebScraper._is_valid_sunday_game
_is_valid_sunday_game(game_info, today) ==
    LET game_date == game_info.date IN
    IF date_le(game_date, today) THEN FALSE
    ELSE IF weekday(game_date) # 6 THEN FALSE
    ELSE TRUE

\* a variant in which a card that fails to parse ends the extraction
RECURSIVE collect_games_aborting(_, _, _)
collect_games_aborting(doc, schedule_entries, today) ==
    IF schedule_entries = <<>> THEN <<>>
    ELSE LET game_info == _parse_game_entry(doc[Head(schedule_entries)].card) IN
         IF game_info = NoneDict THEN <<>>
         ELSE (IF _is_valid_sunday_game(game_info, today) THEN <<game_info>> ELSE <<>>)
              \o collect_games_aborting(doc, Tail(schedule_entries), today)

\* the loop of lines 75-91 over the schedule entries
RECURSIVE collect_games(_, _, _)
collect_games(doc, schedule_entries, today) ==
    IF schedule_entries = <<>> THEN <<>>
    ELSE LET game_info == _parse_game_entry(doc[Head(schedule_entries)].card) IN
         (IF game_info # NoneDict /\ _is_valid_sunday_game(game_info, today)
          THEN <<game_info>> ELSE <<>>)
         \o collect_games(doc, Tail(schedule_entries), today)

\* WebScraper.extract_sunday_games
extract_sunday_games(doc, today) ==
    LET upcoming_section == _find_upcoming_matches_section(doc) IN
    IF upcoming_section = 0 THEN <<>>
    ELSE collect_games(doc, find_all_entries(doc, upcoming_section), today)

(***************************************************************************)
(* The contact directory (contacts_parser.py).                             *)
(*                                                                         *)
(* contacts_data, a dict in insertion order, is a sequence of              *)
(* [team, emails] entries with distinct teams.                             *)
(***************************************************************************)
WordChars   == UpperChars \cup LowerChars \cup DigitChars \cup {"_"}
LocalChars  == UpperChars \cup LowerChars \cup DigitChars \cup {".", "_", "%", "+", "-"}
DomainChars == UpperChars \cup LowerChars \cup DigitChars \cup {".", "-"}
\* the class [A-Z|a-z], which holds the bar as well as the letters
ExtChars    == UpperChars \cup LowerChars \cup {"|"}

\* \b at offset k of s (between s[k] and s[k+1])
word_boundary(s, k) ==
    (k >= 1 /\ k <= Len(s) /\ s[k] \in WordChars)
        # (k + 1 <= Len(s) /\ s[k + 1] \in WordChars)

\* the end of the pattern, after the extension that ends at offset k
pattern_end(s, k) == word_boundary(s, k)

\* _is_valid_email: re.match of
\*   \b[A-Za-z0-9._%+-]+@[A-Za-z0-9.-]+\.[A-Z|a-z]{2,}\b
\* at the start of email: the local part is email[1..i], the domain
\* email[i+2..j], the extension email[j+2..k]
_is_valid_email(email) ==
    /\ word_boundary(email, 0)
    /\ \E i \in 1..Len(email) : \E j \in (i + 2)..Len(email) : \E k \in (j + 3)..Len(email) :
          /\ \A p \in 1..i : email[p] \in LocalChars
          /\ email[i + 1] = "@"
          /\ \A p \in (i + 2)..j : email[p] \in DomainChars
          /\ email[j + 1] = "."
          /\ \A p \in (j + 2)..k : email[p] \in ExtChars
          /\ pattern_end(email, k)

\* f.readlines(): the lines of the file, the final one with or without its "\n"
readlines(content) ==
    LET pieces == split_on(content, "\n") IN
    IF pieces[Len(pieces)] = <<>> THEN SubSeq(pieces, 1, Len(pieces) - 1) ELSE pieces

TeamContacts      == <<"T","e","a","m"," ","C","o","n","t","a","c","t","s">>
TeamHeader        == <<"T","e","a","m">>
CaptainEmail      == <<"C","a","p","t","a","i","n"," ","E","m","a","i","l">>
ViceCaptainEmail  == <<"V","i","c","e"," ","C","a","p","t","a","i","n"," ","E","m","a","i","l">>

\* the loop of lines 48-54: the (1-based) index of the last header equal to
\* name, 0 for None
header_index(headers, name) ==
    IF \E i \in 1..Len(headers) : headers[i] = name
    THEN CHOOSE i \in 1..Len(headers) :
             headers[i] = name /\ \A j \in (i + 1)..Len(headers) : headers[j] # name
    ELSE 0

\* lines 86-101: the valid email of column index of a row, <<>> when there is none
email_of(fields, index) ==
    IF index # 0 /\ Len(fields) >= index
    THEN LET e == strip(fields[index]) IN
         IF e # <<>> /\ _is_valid_email(e) THEN <<e>> ELSE <<>>
    ELSE <<>>

\* a variant that stores every row
row_is_stored_always(emails) == TRUE

\* lines 103-107: whether a row with these emails is stored
row_is_stored(emails) == emails # <<>>

\* self.contacts_data[team_name] = emails
dict_set(data, team, emails) ==
    IF \E i \in 1..Len(data) : data[i].team = team
    THEN [i \in 1..Len(data) |->
             IF data[i].team = team THEN [team |-> team, emails |-> emails] ELSE data[i]]
    ELSE Append(data, [team |-> team, emails |-> emails])

\* the loop of lines 63-107 over the data rows
RECURSIVE load_rows(_, _, _, _, _)
load_rows(rows, team_index, captain_email_index, vice_captain_email_index, data) ==
    IF rows = <<>> THEN data
    ELSE LET line   == strip(Head(rows))
             fields == split_on(line, "\t")
             rest   == Tail(rows)
         IN  IF line = <<>>
             THEN load_rows(rest, team_index, captain_email_index, vice_captain_email_index, data)
             ELSE IF Len(fields) < team_index
             THEN load_rows(rest, team_index, captain_email_index, vice_captain_email_index, data)
             ELSE LET team_name == strip(fields[team_index])
                      emails    == email_of(fields, captain_email_index)
                                   \o email_of(fields, vice_captain_email_index)
                  IN  IF team_name = <<>>
                      THEN load_rows(rest, team_index, captain_email_index,
                                     vice_captain_email_index, data)
                      ELSE load_rows(rest, team_index, captain_email_index,
                                     vice_captain_email_index,
                                     IF row_is_stored(emails)
                                     THEN dict_set(data, team_name, emails)
                                     ELSE data)

\* ContactsParser._load_contacts on the content of contacts.txt (NoText: the
\* file cannot be opened); the value of self.contacts_data afterwards
_load_contacts(content) ==
    IF content = NoText THEN <<>>
    ELSE LET all_lines == readlines(content)
             lines == IF all_lines # <<>> /\ strip(all_lines[1]) = TeamContacts
                      THEN Tail(all_lines) ELSE all_lines
         IN  IF lines = <<>> THEN <<>>
             ELSE LET headers    == split_on(strip(lines[1]), "\t")
                      team_index == header_index(headers, TeamHeader)
                  IN  IF team_index = 0 THEN <<>>
                      ELSE load_rows(Tail(lines), team_index,
                                     header_index(headers, CaptainEmail),
                                     header_index(headers, ViceCaptainEmail), <<>>)

\* the exact match of lines 146-149: the index of the entry, 0 when absent
exact_match(data, team_name) ==
    IF \E i \in 1..Len(data) : data[i].team = team_name
    THEN CHOOSE i \in 1..Len(data) : data[i].team = team_name
    ELSE 0

\* the condition of line 154
partial_match(team_name_lower, stored_team) ==
    \/ contains(lower(stored_team), team_name_lower)
    \/ contains(team_name_lower, lower(stored_team))

\* the loop of lines 153-156 from entry i on
RECURSIVE scan_partial(_, _, _)
scan_partial(data, team_name_lower, i) ==
    IF i > Len(data) THEN None
    ELSE IF partial_match(team_name_lower, data[i].team) THEN data[i].emails
    ELSE scan_partial(data, team_name_lower, i + 1)

\* a variant without the exact match
get_team_contact_partial_only(data, team_name) == scan_partial(data, lower(team_name), 1)

\* ContactsParser.get_team_contact: the emails, or None
get_team_contact(data, team_name) ==
    IF exact_match(data, team_name) # 0
    THEN data[exact_match(data, team_name)].emails
    ELSE scan_partial(data, lower(team_name), 1)

\* ContactsParser.get_all_team_contacts, ContactsParser.list_all_teams
get_all_team_contacts(data) == data
list_all_teams(data) == [i \in 1..Len(data) |-> data[i].team]

\* a variant of get_team_contact that stores a partial match under the name
\* it was asked for
contacts_after_lookup_caching(data, team_name) ==
    IF exact_match(data, team_name) = 0 /\ get_team_contact(data, team_name) # None
    THEN dict_set(data, team_name, get_team_contact(data, team_name))
    ELSE data

\* self.contacts_data after get_team_contact(team_name): the method reads
\* the table and assigns neither to it nor to a stored list
contacts_after_lookup(data, team_name) == data

\* self.contacts_data after get_all_team_contacts() and list_all_teams(): a
\* copy of the dict and a list of its keys are built
contacts_after_listing(data) == data

(***************************************************************************)
(* The LLM contact extractor (llm_contacts.py).                            *)
(*                                                                         *)
(* What the call of the model meets is a record [kind, text]:              *)
(*   "request_exception"  requests.post raises (no connection, timeout)    *)
(*   "http_error"         raise_for_status raises                          *)
(*   "bad_json"           response.json() raises                           *)
(*   "null_response"      the JSON holds "response": null, so .strip()     *)
(*                        raises AttributeError                            *)
(*   "no_response"        the JSON holds no "response"                     *)
(*   "text"               the JSON holds "response": text                  *)
(***************************************************************************)
NOT_FOUND == <<"N","O","T","_","F","O","U","N","D">>

\* a variant that lets the exception through
ollama_handler_reraise == [ret |-> None, raised |-> TRUE]

\* the handlers of lines 48-53: whatever the call raises is caught, and
\* _call_ollama returns None
ollama_handler == [ret |-> None, raised |-> FALSE]

\* LLMContactExtractor._call_ollama: the stripped reply or None, and whether
\* an exception left the method
_call_ollama(outcome) ==
    IF outcome.kind \in {"request_exception", "http_error", "bad_json", "null_response"}
    THEN ollama_handler
    ELSE IF outcome.kind = "no_response"
    THEN [ret |-> strip(<<>>), raised |-> FALSE]
    ELSE [ret |-> strip(outcome.text), raised |-> FALSE]

\* LLMContactExtractor.load_contacts_file: the content, None when unreadable
load_contacts_file(file) == IF file = NoText THEN None ELSE file

\* LLMContactExtractor._is_valid_email: the pattern of ContactsParser
llm_is_valid_email(email) == _is_valid_email(email)

\* a variant that returns the list even when it is empty
_parse_llm_response_any_list(response) ==
    LET parts  == split_on(strip(response), ",")
        emails == SelectSeq([i \in 1..Len(parts) |-> strip(parts[i])], llm_is_valid_email)
    IN  IF upper(strip(response)) = NOT_FOUND THEN None ELSE emails

\* LLMContactExtractor._parse_llm_response: the valid items of the reply, or None
_parse_llm_response(response) ==
    LET stripped == strip(response) IN
    IF upper(stripped) = NOT_FOUND THEN None
    ELSE LET parts  == split_on(stripped, ",")
             emails == SelectSeq([i \in 1..Len(parts) |-> strip(parts[i])],
                                 llm_is_valid_email)
         IN  IF emails # <<>> THEN emails ELSE None

\* LLMContactExtractor.extract_team_contact: the emails or None, and whether
\* an exception left the method (it has no handler of its own)
extract_team_contact(team_name, file, outcome) ==
    LET contacts_content == load_contacts_file(file) IN
    IF contacts_content = None \/ contacts_content = <<>>
    THEN [ret |-> None, raised |-> FALSE]
    ELSE LET response == _call_ollama(outcome) IN
         IF response.raised THEN [ret |-> None, raised |-> TRUE]
         ELSE IF response.ret = None \/ response.ret = <<>>
         THEN [ret |-> None, raised |-> FALSE]
         ELSE [ret |-> _parse_llm_response(response.ret), raised |-> FALSE]

(***************************************************************************)
(* Python values as json.loads builds them and as get_all_team_contacts    *)
(* returns them: a record with its type and, under a field of its own, its *)
(* content.  The pairs of a dict are [key, value] records in insertion     *)
(* order, the keys being strings.                                          *)
(***************************************************************************)
PyNone       == [type |-> "NoneType"]
PyBool(b)    == [type |-> "bool", truth |-> b]
PyInt(n)     == [type |-> "int", number |-> n]
PyFloat(txt) == [type |-> "float", literal |-> txt]
PyStr(s)     == [type |-> "str", chars |-> s]
PyList(xs)   == [type |-> "list", items |-> xs]
PyDict(ps)   == [type |-> "dict", pairs |-> ps]

\* d[key] = value on the pairs of a dict
py_dict_set(pairs, key, value) ==
    IF \E i \in 1..Len(pairs) : pairs[i].key = key
    THEN [i \in 1..Len(pairs) |->
             IF pairs[i].key = key THEN [key |-> key, value |-> value] ELSE pairs[i]]
    ELSE Append(pairs, [key |-> key, value |-> value])
\* dict(pairs)
RECURSIVE py_dict(_, _)
py_dict(pairs, acc) ==
    IF pairs = <<>> THEN acc
    ELSE py_dict(Tail(pairs), py_dict_set(acc, Head(pairs).key, Head(pairs).value))

\* len(x) raises TypeError on a value that has no length
has_len(x) == x.type \in {"dict", "list", "str"}

(***************************************************************************)
(* json.loads (json/decoder.py, json/scanner.py).  A scan returns          *)
(* [ok, value, end]: whether a value was read at the position, the value,  *)
(* and the position after it; ok is FALSE where the decoder raises         *)
(* JSONDecodeError.  Of the escapes of a string, \b, \f and \uXXXX are not *)
(* read.                                                                   *)
(***************************************************************************)
scan_error == [ok |-> FALSE, value |-> PyNone, end |-> 0]
scanned(value, end) == [ok |-> TRUE, value |-> value, end |-> end]

\* s[idx:idx + 1], <<>> past the end
char_at(s, idx) == IF idx >= 1 /\ idx <= Len(s) THEN <<s[idx]>> ELSE <<>>
\* s[idx:idx + len(lit)] == lit
starts_with(s, idx, lit) ==
    idx + Len(lit) - 1 <= Len(s) /\ SubSeq(s, idx, idx + Len(lit) - 1) = lit

\* WHITESPACE.match(s, idx).end()
RECURSIVE skip_ws(_, _)
skip_ws(s, idx) ==
    IF idx <= Len(s) /\ s[idx] \in Whitespace THEN skip_ws(s, idx + 1) ELSE idx

\* the end of the run of digits that starts at idx
RECURSIVE digits_end(_, _)
digits_end(s, idx) ==
    IF idx <= Len(s) /\ s[idx] \in DigitChars THEN digits_end(s, idx + 1) ELSE idx

\* py_scanstring from the character after the opening quote
RECURSIVE scanstring(_, _, _)
scanstring(s, idx, acc) ==
    IF idx > Len(s) THEN scan_error
    ELSE IF s[idx] = "\"" THEN scanned(PyStr(acc), idx + 1)
    ELSE IF s[idx] \in {"\n", "\t", "\r"} THEN scan_error
    ELSE IF s[idx] # "\\" THEN scanstring(s, idx + 1, Append(acc, s[idx]))
    ELSE IF idx + 1 > Len(s) THEN scan_error
    ELSE LET esc == s[idx + 1] IN
         IF esc \in {"\"", "\\", "/"} THEN scanstring(s, idx + 2, Append(acc, esc))
         ELSE IF esc = "n" THEN scanstring(s, idx + 2, Append(acc, "\n"))
         ELSE IF esc = "r" THEN scanstring(s, idx + 2, Append(acc, "\r"))
         ELSE IF esc = "t" THEN scanstring(s, idx + 2, Append(acc, "\t"))
         ELSE scan_error

\* NUMBER_RE.match(s, idx): (-?(?:0|[1-9]\d*))(\.\d+)?([eE][-+]?\d+)?
match_number(s, idx) ==
    LET first    == IF char_at(s, idx) = <<"-">> THEN idx + 1 ELSE idx
        int_end  == IF char_at(s, first) = <<"0">> THEN first + 1 ELSE digits_end(s, first)
        frac_end == IF char_at(s, int_end) = <<".">> /\ digits_end(s, int_end + 1) > int_end + 1
                    THEN digits_end(s, int_end + 1) ELSE int_end
        exp_at   == IF char_at(s, frac_end + 1) \in { <<"+">>, <<"-">> }
                    THEN frac_end + 2 ELSE frac_end + 1
        exp_end  == IF char_at(s, frac_end) \in { <<"e">>, <<"E">> } /\ digits_end(s, exp_at) > exp_at
                    THEN digits_end(s, exp_at) ELSE frac_end
    IN  IF int_end = first THEN scan_error
        ELSE IF exp_end = int_end
        THEN scanned(PyInt(IF first = idx
                           THEN digits_value(SubSeq(s, first, int_end - 1))
                           ELSE 0 - digits_value(SubSeq(s, first, int_end - 1))), int_end)
        ELSE scanned(PyFloat(SubSeq(s, idx, exp_end - 1)), exp_end)

RECURSIVE scan_once(_, _)
RECURSIVE object_pairs(_, _, _)
RECURSIVE array_items(_, _, _)

\* JSONObject from the character after the brace
JSONObject(s, idx) ==
    LET i == IF char_at(s, idx) # <<"\"">> THEN skip_ws(s, idx) ELSE idx IN
    IF char_at(s, i) = <<"}">> THEN scanned(PyDict(<<>>), i + 1)
    ELSE IF char_at(s, i) # <<"\"">> THEN scan_error
    ELSE object_pairs(s, i + 1, <<>>)

\* the loop of JSONObject from the character after the quote that opens a key
object_pairs(s, idx, acc) ==
    LET key == scanstring(s, idx, <<>>) IN
    IF ~key.ok THEN scan_error
    ELSE LET colon == skip_ws(s, key.end) IN
         IF char_at(s, colon) # <<":">> THEN scan_error
         ELSE LET value == scan_once(s, skip_ws(s, colon + 1)) IN
              IF ~value.ok THEN scan_error
              ELSE LET pairs == Append(acc, [key |-> key.value.chars, value |-> value.value])
                       next  == skip_ws(s, value.end)
                   IN  IF char_at(s, next) = <<"}">>
                       THEN scanned(PyDict(py_dict(pairs, <<>>)), next + 1)
                       ELSE IF char_at(s, next) # <<",">> THEN scan_error
                       ELSE LET quote == skip_ws(s, next + 1) IN
                            IF char_at(s, quote) # <<"\"">> THEN scan_error
                            ELSE object_pairs(s, quote + 1, pairs)

\* JSONArray from the character after the bracket
JSONArray(s, idx) ==
    LET i == skip_ws(s, idx) IN
    IF char_at(s, i) = <<"]">> THEN scanned(PyList(<<>>), i + 1)
    ELSE array_items(s, i, <<>>)

\* the loop of JSONArray from the start of an item
array_items(s, idx, acc) ==
    LET value == scan_once(s, idx) IN
    IF ~value.ok THEN scan_error
    ELSE LET items == Append(acc, value.value)
             next  == skip_ws(s, value.end)
         IN  IF char_at(s, next) = <<"]">> THEN scanned(PyList(items), next + 1)
             ELSE IF char_at(s, next) # <<",">> THEN scan_error
             ELSE array_items(s, skip_ws(s, next + 1), items)

\* py_make_scanner's _scan_once
scan_once(s, idx) ==
    IF idx > Len(s) THEN scan_error
    ELSE IF s[idx] = "\"" THEN scanstring(s, idx + 1, <<>>)
    ELSE IF s[idx] = "{" THEN JSONObject(s, idx + 1)
    ELSE IF s[idx] = "[" THEN JSONArray(s, idx + 1)
    ELSE IF starts_with(s, idx, <<"n","u","l","l">>) THEN scanned(PyNone, idx + 4)
    ELSE IF starts_with(s, idx, <<"t","r","u","e">>) THEN scanned(PyBool(TRUE), idx + 4)
    ELSE IF starts_with(s, idx, <<"f","a","l","s","e">>) THEN scanned(PyBool(FALSE), idx + 5)
    ELSE IF match_number(s, idx).ok THEN match_number(s, idx)
    ELSE IF starts_with(s, idx, <<"N","a","N">>)
    THEN scanned(PyFloat(<<"N","a","N">>), idx + 3)
    ELSE IF starts_with(s, idx, <<"I","n","f","i","n","i","t","y">>)
    THEN scanned(PyFloat(<<"I","n","f","i","n","i","t","y">>), idx + 8)
    ELSE IF starts_with(s, idx, <<"-","I","n","f","i","n","i","t","y">>)
    THEN scanned(PyFloat(<<"-","I","n","f","i","n","i","t","y">>), idx + 9)
    ELSE scan_error

\* json.loads(s): JSONDecoder.decode, which raises JSONDecodeError (ok is
\* FALSE) when no value starts the text or anything but blanks follows it
json_loads(s) ==
    LET obj == scan_once(s, skip_ws(s, 1)) IN
    IF ~obj.ok THEN [ok |-> FALSE, value |-> PyNone]
    ELSE IF skip_ws(s, obj.end) # Len(s) + 1 THEN [ok |-> FALSE, value |-> PyNone]
    ELSE [ok |-> TRUE, value |-> obj.value]

\* the valid items of the comma-separated text after the colon of a line
emails_of_part(email_part) ==
    LET parts == split_on(email_part, ",") IN
    SelectSeq([i \in 1..Len(parts) |-> strip(parts[i])], llm_is_valid_email)

\* "Save previous team if exists" / "Save last team"
save_team(contacts, current_team, current_emails) ==
    IF current_team # None /\ current_emails # <<>>
    THEN py_dict_set(contacts, current_team,
                     PyList([i \in 1..Len(current_emails) |-> PyStr(current_emails[i])]))
    ELSE contacts

\* the loop of _parse_contacts_alternative over the lines
RECURSIVE alternative_lines(_, _, _, _)
alternative_lines(lines, contacts, current_team, current_emails) ==
    IF lines = <<>> THEN save_team(contacts, current_team, current_emails)
    ELSE LET line == strip(Head(lines)) IN
         IF \A i \in 1..Len(line) : line[i] # ":"
         THEN alternative_lines(Tail(lines), contacts, current_team, current_emails)
         ELSE LET k == CHOOSE i \in 1..Len(line) :
                           line[i] = ":" /\ \A j \in 1..(i - 1) : line[j] # ":"
                  team_part  == strip(SubSeq(line, 1, k - 1))
                  email_part == strip(SubSeq(line, k + 1, Len(line)))
              IN  IF (\A i \in 1..Len(team_part) : team_part[i] # "@") /\ Len(team_part) > 3
                  THEN alternative_lines(Tail(lines),
                           save_team(contacts, current_team, current_emails),
                           team_part, emails_of_part(email_part))
                  ELSE alternative_lines(Tail(lines), contacts, current_team,
                           current_emails \o emails_of_part(email_part))

\* LLMContactExtractor._parse_contacts_alternative: a dict of team to emails
_parse_contacts_alternative(response) ==
    PyDict(alternative_lines(split_on(response, "\n"), <<>>, None, <<>>))

\* LLMContactExtractor.get_all_team_contacts: what it returns, and whether an
\* exception left the method; only JSONDecodeError is caught, so the TypeError
\* of len(contacts) on a number, a boolean or null leaves it
llm_get_all_team_contacts(file, outcome) ==
    LET contacts_content == load_contacts_file(file) IN
    IF contacts_content = None \/ contacts_content = <<>>
    THEN [ret |-> PyDict(<<>>), raised |-> FALSE]
    ELSE LET response == _call_ollama(outcome) IN
         IF response.raised THEN [ret |-> PyNone, raised |-> TRUE]
         ELSE IF response.ret = None \/ response.ret = <<>>
         THEN [ret |-> PyDict(<<>>), raised |-> FALSE]
         ELSE LET contacts == json_loads(response.ret) IN
              IF ~contacts.ok
              THEN [ret |-> _parse_contacts_alternative(response.ret), raised |-> FALSE]
              ELSE IF ~has_len(contacts.value)
              THEN [ret |-> PyNone, raised |-> TRUE]
              ELSE [ret |-> contacts.value, raised |-> FALSE]

(***************************************************************************)
(* The invitation drafter (email_manager.py).                              *)
(*                                                                         *)
(* The HTML of a message is the record of the slots the drafter fills:     *)
(*   date, opponent_team, map_link   the text placeholders                 *)
(*   opponent_logo, sparta_logo      the src of the two logo images        *)
(*   map_image                       the src of the map image              *)
(* A src is [kind |-> "placeholder"], [kind |-> "url", url |-> u] or       *)
(* [kind |-> "data", of |-> u] (the base64 data of what u served).         *)
(***************************************************************************)
CC_EMAILS == <<"y","r","k","1","4","3","6","@","g","m","a","i","l",".","c","o","m",",","s","u","m","a","n","m","a","r","a","m","@","g","m","a","i","l",".","c","o","m",",","p","i","y","u","s","h","p","a","r","a","s","h","a","r",".","r","v","@","g","m","a","i","l",".","c","o","m">>
SUBJECT_PREFIX == <<"S","P","A","R","T","A"," ","X","I"," ","V","S"," ">>
EMAIL_SEND_HOUR == 19
EMAIL_SEND_MINUTE == 0

\* what _authenticate meets:
\*   token       the token file: "absent", "unreadable" (loading it raises),
\*               "valid", "refreshable" (expired, with a refresh token) or
\*               "stale" (not valid, and not expired with a refresh token)
\*   refresh_ok  creds.refresh succeeds
\*   flow_ok     the OAuth flow of lines 56-63 succeeds
\*   build_ok    build('gmail', 'v1', ...) succeeds
AuthCases ==
    { a \in [token : {"absent", "unreadable", "valid", "refreshable", "stale"},
             refresh_ok : BOOLEAN, flow_ok : BOOLEAN, build_ok : BOOLEAN] :
         \* the answers the code does not ask for are held at TRUE
         /\ (a.token # "refreshable" => a.refresh_ok)
         /\ (a.token \in {"valid", "stale"} => a.flow_ok)
         /\ ((a.token = "refreshable" /\ a.refresh_ok) => a.flow_ok)
         /\ (~a.flow_ok => a.build_ok) }

\* a variant that builds the service whatever the flow did
_authenticate_always_builds(a) == [service |-> TRUE, creds |-> "valid"]

\* EmailManager._authenticate: whether self.service is set, and the
\* credentials it was built with ("valid", "stale" or None)
_authenticate(a) ==
    LET loaded    == IF a.token \in {"valid", "refreshable", "stale"} THEN a.token ELSE None
        refreshed == IF loaded = "refreshable"
                     THEN (IF a.refresh_ok THEN "valid" ELSE None)
                     ELSE loaded
        creds     == IF refreshed = None
                     THEN (IF a.flow_ok THEN "valid" ELSE None)
                     ELSE refreshed
    IN  IF loaded # "valid" /\ creds = None
        THEN [service |-> FALSE, creds |-> None]          \* line 65: return
        ELSE [service |-> a.build_ok, creds |-> creds]

Placeholder == [kind |-> "placeholder"]
\* the content of email_template.html
EMAIL_TEMPLATE ==
    [date |-> "{DATE}", opponent_team |-> "{OPPONENT_TEAM}", map_link |-> "{MAP_LINK}",
     opponent_logo |-> Placeholder, sparta_logo |-> Placeholder,
     map_image |-> [kind |-> "url", url |-> "assets/cricket_pitch_map.jpg"]]

\* what requests.get of a logo does: raise, or answer with a status code
FetchResults == { [raised |-> TRUE,  status_code |-> 0],
                  [raised |-> FALSE, status_code |-> 200],
                  [raised |-> FALSE, status_code |-> 404] }

\* html_content.replace('src="{..._LOGO}"', 'src="..."') on one logo src
replace_placeholder(src, new_src) == IF src = Placeholder THEN new_src ELSE src

\* a variant that lets the exception of the download through
logo_fetch_handler_reraise(src, logo_url) == [src |-> src, raised |-> TRUE]

\* the handler of lines 191-199 (and 233-241): an exception raised by the
\* download is caught, and the placeholder is replaced by the remote URL
logo_fetch_handler(src, logo_url) ==
    [src |-> replace_placeholder(src, [kind |-> "url", url |-> logo_url]), raised |-> FALSE]

\* a variant that leaves the placeholder in place when the download fails
embed_logo_no_fallback(src, logo_url, fetch) ==
    IF logo_url # None /\ logo_url # "" /\ ~fetch.raised /\ fetch.status_code = 200
    THEN [src |-> replace_placeholder(src, [kind |-> "data", of |-> logo_url]), raised |-> FALSE]
    ELSE [src |-> src, raised |-> FALSE]

\* lines 162-201 (and 204-243): the src one logo placeholder is left with,
\* and whether an exception left the block
embed_logo(src, logo_url, fetch) ==
    IF logo_url # None /\ logo_url # ""
    THEN IF ~fetch.raised
         THEN IF fetch.status_code = 200
              THEN [src |-> replace_placeholder(src, [kind |-> "data", of |-> logo_url]),
                    raised |-> FALSE]
              ELSE [src |-> replace_placeholder(src, [kind |-> "url", url |-> logo_url]),
                    raised |-> FALSE]
         ELSE logo_fetch_handler(src, logo_url)
    ELSE [src |-> src, raised |-> FALSE]

\* EmailManager._embed_team_logos; an exception that leaves one of the two
\* blocks is caught by the handler of lines 245-246, and the content as it
\* stands is returned
_embed_team_logos(html_content, opponent_logo_url, sparta_logo_url, fetch_opponent, fetch_sparta) ==
    LET o == embed_logo(html_content.opponent_logo, opponent_logo_url, fetch_opponent)
        with_opponent == [html_content EXCEPT !.opponent_logo = o.src]
        s == embed_logo(html_content.sparta_logo, sparta_logo_url, fetch_sparta)
    IN  IF o.raised THEN html_content
        ELSE IF s.raised THEN with_opponent
        ELSE [with_opponent EXCEPT !.sparta_logo = s.src]

\* EmailManager._embed_map_image; map_exists: assets/cricket_pitch_map.jpg is on disk
_embed_map_image(html_content, map_exists) ==
    IF map_exists
    THEN [html_content EXCEPT !.map_image =
             IF @ = [kind |-> "url", url |-> "assets/cricket_pitch_map.jpg"]
             THEN [kind |-> "data", of |-> "assets/cricket_pitch_map.jpg"] ELSE @]
    ELSE html_content

\* game_date - timedelta(days=n) for n <= 28: None where it raises OverflowError
date_minus_days(dt, n) ==
    IF dt[3] > n THEN <<dt[1], dt[2], dt[3] - n>>
    ELSE IF dt[2] > 1
    THEN <<dt[1], dt[2] - 1, days_in_month(dt[1], dt[2] - 1) + dt[3] - n>>
    ELSE IF dt[1] > 1
    THEN <<dt[1] - 1, 12, 31 + dt[3] - n>>
    ELSE None

\* a variant without the step back of a week from a Tuesday
days_before_game_no_wrap(game_date) == (weekday(game_date) - 1) % 7

\* lines 335-337
days_before_game(game_date) ==
    LET days_before == (weekday(game_date) - 1) % 7 IN
    IF days_before = 0 THEN 7 ELSE days_before

\* EmailManager.calculate_send_date: [date, hour, minute], or NoneDict
calculate_send_date(game_date) ==
    LET tuesday_date == date_minus_days(game_date, days_before_game(game_date)) IN
    IF tuesday_date = None THEN NoneDict
    ELSE [date |-> tuesday_date, hour |-> EMAIL_SEND_HOUR, minute |-> EMAIL_SEND_MINUTE]

\* EmailManager.get_cc_emails
get_cc_emails ==
    LET parts == split_on(CC_EMAILS, ",")
        cc    == [i \in 1..Len(parts) |-> strip(parts[i])]
        nonempty(e) == e # <<>>
    IN  IF CC_EMAILS = <<>> THEN <<>> ELSE SelectSeq(cc, nonempty)

\* EmailManager.create_email_message: the headers and the body of the message
create_email_message(to_emails, cc_emails, subject, html_content) ==
    [to |-> to_emails, cc |-> cc_emails, subject |-> subject, html |-> html_content]

\* a variant that sends the message
gmail_request_send(message) ==
    [method |-> "users.messages.send", message |-> message, failed |-> FALSE]

\* lines 308-310: the request sent to the Gmail API
gmail_request(message) ==
    [method |-> "users.drafts.create", message |-> message, failed |-> FALSE]

\* a variant that reports success although the request raised
save_email_as_draft_ignoring_error(service, to_emails, cc_emails, subject, html_content, api_error) ==
    IF ~service THEN [ret |-> FALSE, requests |-> <<>>]
    ELSE LET message == create_email_message(to_emails, cc_emails, subject, html_content)
             request == [gmail_request(message) EXCEPT !.failed = api_error]
         IN  [ret |-> TRUE, requests |-> <<request>>]

\* EmailManager.save_email_as_draft: the value returned and the requests sent
\* to the Gmail API (failed: the request raised); service: self.service is
\* set; api_error: the request raises
save_email_as_draft(service, to_emails, cc_emails, subject, html_content, api_error) ==
    IF ~service THEN [ret |-> FALSE, requests |-> <<>>]
    ELSE LET message == create_email_message(to_emails, cc_emails, subject, html_content)
             request == [gmail_request(message) EXCEPT !.failed = api_error]
         IN  [ret |-> ~api_error, requests |-> <<request>>]

\* a variant that lets the exception through
draft_game_handler_reraise == [ret |-> FALSE, requests |-> <<>>, escaped |-> TRUE]

\* the handler of lines 441-443: an exception raised in the try block of
\* draft_game_invitation is caught, and the call returns False
draft_game_handler == [ret |-> FALSE, requests |-> <<>>, escaped |-> FALSE]

\* EmailManager.draft_game_invitation: the value returned, the requests sent
\* to the Gmail API, and whether an exception left the method.  game_info is
\* a game record, or NoneDict for a dict without the keys of one (game_info['date']
\* raises KeyError).  env is what the call meets:
\*   template        the content of the template file, NoneDict when it cannot be read
\*   fetch_opponent, fetch_sparta   the answers to the two logo requests
\*   map_exists      the map image is on disk
\*   api_error       the Gmail request raises
draft_game_invitation(service, game_info, contact_emails, env) ==
    LET failed == [ret |-> FALSE, requests |-> <<>>, escaped |-> FALSE] IN
    IF env.template = NoneDict
    THEN failed
    ELSE IF game_info = NoneDict
    THEN draft_game_handler
    ELSE LET game_date     == game_info.date
             opponent_team == game_info.opponent
             display_date  == <<strftime_A(game_date), game_date[2], game_date[3]>>
             filled        == [env.template EXCEPT
                                  !.date = display_date,
                                  !.opponent_team = opponent_team,
                                  !.map_link = "SPARTA_MAP_LINK"]
             with_logos    == _embed_team_logos(filled, game_info.opponent_logo,
                                  game_info.sparta_logo, env.fetch_opponent, env.fetch_sparta)
             email_content == _embed_map_image(with_logos, env.map_exists)
             subject       == SUBJECT_PREFIX \o opponent_team
             intended_send_date == calculate_send_date(game_date)
             saved         == save_email_as_draft(service, contact_emails, get_cc_emails,
                                                  subject, email_content, env.api_error)
         IN  IF intended_send_date = NoneDict THEN failed
             ELSE [ret |-> saved.ret, requests |-> saved.requests, escaped |-> FALSE]

(***************************************************************************)
(* The orchestrator (main.py).                                             *)
(***************************************************************************)
\* a variant that lets the exception through
process_game_handler_reraise == [ret |-> FALSE, escaped |-> TRUE]

\* the handler of lines 101-103: an exception raised in the try block of
\* _process_game is caught, and the game counts as failed
process_game_handler == [ret |-> FALSE, escaped |-> FALSE]

\* a variant that takes the games of a Sunday for away games
is_away_game_sunday(game_date) == weekday(game_date) = 6

\* line 87: a game on a Saturday is an away game
is_away_game(game_date) == weekday(game_date) = 5

\* BiweeklyTaskAutomation._process_game: the value returned, the team names
\* looked up, the requests sent to the Gmail API, and whether an exception
\* left the method.  env.raises: the try block raises before its first call
\* (as it does for a game without the keys of a record)
_process_game(data, service, game, env) ==
    IF env.raises \/ game = NoneDict
    THEN [ret |-> process_game_handler.ret, escaped |-> process_game_handler.escaped,
          lookups |-> <<>>, requests |-> <<>>]
    ELSE LET opponent_team  == game.opponent
             game_date      == game.date
             contact_emails == get_team_contact(data, opponent_team)
         IN  IF contact_emails = None \/ contact_emails = <<>>
             THEN [ret |-> FALSE, escaped |-> FALSE,
                   lookups |-> <<opponent_team>>, requests |-> <<>>]
             ELSE IF is_away_game(game_date)
             THEN [ret |-> TRUE, escaped |-> FALSE,
                   lookups |-> <<opponent_team>>, requests |-> <<>>]
             ELSE LET d == draft_game_invitation(service, game, contact_emails, env) IN
                  IF d.escaped
                  THEN [ret |-> process_game_handler.ret,
                        escaped |-> process_game_handler.escaped,
                        lookups |-> <<opponent_team>>, requests |-> d.requests]
                  ELSE [ret |-> d.ret, escaped |-> FALSE,
                        lookups |-> <<opponent_team>>, requests |-> d.requests]

\* variants: no game is a failure; any count is a success
result_no_games_false == FALSE
result_of_count_any(success_count) == success_count >= 0

\* line 44: the result of a run that found no game
result_no_games == TRUE
\* line 55: the result of a run that processed its games
result_of_count(success_count) == success_count > 0

\* the Gmail account after it served a request
serve_request(account, request) ==
    IF request.failed THEN account
    ELSE IF request.method = "users.drafts.create"
    THEN [account EXCEPT !.drafts = Append(@, request.message)]
    ELSE IF request.method = "users.messages.send"
    THEN [account EXCEPT !.sent = Append(@, request.message)]
    ELSE account
RECURSIVE serve_requests(_, _)
serve_requests(account, requests) ==
    IF requests = <<>> THEN account
    ELSE serve_requests(serve_request(account, Head(requests)), Tail(requests))

(***************************************************************************)
(* Pages the site can serve.  A page is the root with a number of sections *)
(* below it; a section is a chain of `wrappers` nested divs, a span with   *)
(* text `string` in the innermost one, and its fixture cards as children   *)
(* of wrapper `attach` (0: of the root).                                   *)
(***************************************************************************)
Element(tag, class, parent, string, card) ==
    [tag |-> tag, class |-> class, parent |-> parent, string |-> string, card |-> card]

MkSection(offset, sec) ==
    LET w == sec.wrappers
        n == w + 1 + Len(sec.cards)
    IN  [i \in 1..n |->
            IF i <= w
            THEN Element("div", "", IF i = 1 THEN 1 ELSE offset + i - 1, NoText, NoneDict)
            ELSE IF i = w + 1
            THEN Element("span", "", IF w = 0 THEN 1 ELSE offset + w, sec.string, NoneDict)
            ELSE Element("div", "schedule-all",
                         IF sec.attach = 0 THEN 1 ELSE offset + sec.attach,
                         NoText, sec.cards[i - w - 1])]

RECURSIVE MkSections(_, _)
MkSections(offset, secs) ==
    IF secs = <<>> THEN <<>>
    ELSE LET nodes == MkSection(offset, Head(secs)) IN
         nodes \o MkSections(offset + Len(nodes), Tail(secs))

MkPage(secs) == <<Element("[document]", "", 0, NoText, NoneDict)>> \o MkSections(1, secs)

Section(w, a, str, cards) == [wrappers |-> w, attach |-> a, string |-> str, cards |-> cards]

\* texts found on the pages
Sunday   == DayNames[7]
Saturday == DayNames[6]
Monday   == DayNames[1]
RivalsCC == <<"R","i","v","a","l","s"," ","C","C">>
TitansCC == <<"T","i","t","a","n","s"," ","C","C">>
Jul2025  == <<"J","u","l"," ","2","0","2","5">>
Aug2025  == <<"A","u","g"," ","2","0","2","5">>

LandmarkTexts == { UPCOMING_MATCHES,
                   <<" ","U","p","c","o","m","i","n","g"," ","M","a","t","c","h","e","s"," ","(","2",")">>,
                   <<"P","A","S","T"," ","M","A","T","C","H","E","S">>,
                   NoText }

LabelTexts == { Sunday, Saturday, Monday,
                <<" ">> \o Sunday \o <<"\n">>,
                <<"s","u","n","d","a","y">> }
DayTexts   == { <<"2","7">>, <<"2","6">>, <<"3">>, <<"3","1">>, <<" ","0","3"," ">>,
                <<"x","7">>, <<"0">>, <<>> }
MonthYearTexts == { Jul2025, Aug2025,
                    <<"J","u","n"," ","2","0","2","5">>,
                    <<"J","u","l","y"," ","2","0","2","5">>,
                    <<" ","A","u","g"," "," ","2","0","2","5","\n">>,
                    <<"J","u","l">>,
                    <<"J","u","l"," ","2","0","x","5">>,
                    <<"J","u","l"," ","2","0","2","5"," ","E","T">> }

LinkLists == { <<TEAM_NAME, RivalsCC>>,
               <<RivalsCC, TEAM_NAME>>,
               <<lower(TEAM_NAME), <<"V","s">>, <<" ">> \o RivalsCC \o <<" ">> >>,
               <<<<>>, RivalsCC, <<"v">>, TEAM_NAME>>,
               <<RivalsCC, TitansCC>>,
               <<TEAM_NAME, RivalsCC, TitansCC>>,
               <<TEAM_NAME, TEAM_NAME>>,
               <<TEAM_NAME, <<"v","e","r","s","u","s">> >>,
               <<RivalsCC>>,
               <<>> }
ImgLists == { <<"logo1.png", "logo2.jpg">>, <<"logo1.png">>, <<>>,
              <<None, "logo2.jpg">>, <<"logo1.png", "">>,
              <<"logo1.png", "logo2.jpg", "logo3.gif">> }

Card(h4, h2, h5, links, imgs) ==
    [sch_time |-> TRUE, h4 |-> h4, h2 |-> h2, h5 |-> h5,
     schedule_text |-> TRUE, h3 |-> TRUE, links |-> links,
     schedule_logo |-> TRUE, imgs |-> imgs]

\* a well-formed card of SPARTA XI against Rivals CC on Sunday 27 Jul 2025
GoodCard == Card(Sunday, <<"2","7">>, Jul2025,
                 <<TEAM_NAME, RivalsCC>>, <<"logo1.png", "logo2.jpg">>)

\* cards that vary the date block, the team block, or lack a sub-element
DateCards == { Card(h4, h2, h5, GoodCard.links, GoodCard.imgs) :
                   h4 \in LabelTexts, h2 \in DayTexts, h5 \in MonthYearTexts }
TeamCards == { Card(h4, <<"3">>, Aug2025, links, imgs) :
                   h4 \in {Sunday, Saturday}, links \in LinkLists, imgs \in ImgLists }
BrokenCards == { [GoodCard EXCEPT !.sch_time = FALSE],
                 [GoodCard EXCEPT !.h4 = NoText],
                 [GoodCard EXCEPT !.h2 = NoText],
                 [GoodCard EXCEPT !.h5 = NoText],
                 [GoodCard EXCEPT !.schedule_text = FALSE],
                 [GoodCard EXCEPT !.h3 = FALSE],
                 [GoodCard EXCEPT !.schedule_logo = FALSE] }
AllCards == DateCards \cup TeamCards \cup BrokenCards

AugCard == Card(Sunday, <<"3">>, Aug2025, <<TitansCC, TEAM_NAME>>, <<"logo3.gif", "logo1.png">>)
\* the cards of the pages with several cards
KeyCards == { GoodCard,
              Card(Saturday, <<"2","6">>, Jul2025, GoodCard.links, GoodCard.imgs),
              AugCard,
              Card(Monday, <<"3">>, Aug2025, GoodCard.links, GoodCard.imgs),
              [GoodCard EXCEPT !.h3 = FALSE] }

MaxCards    == 2
MaxWrappers == 11

RECURSIVE SeqsUpTo(_, _)
SeqsUpTo(S, n) ==
    IF n = 0 THEN {<<>>}
    ELSE LET prev == SeqsUpTo(S, n - 1) IN
         prev \cup {Append(q, e) : q \in {p \in prev : Len(p) = n - 1}, e \in S}

\* one section under the root, every card once
CardPages == { MkPage(<<Section(1, 1, UPCOMING_MATCHES, <<c>>)>>) : c \in AllCards }
\* one section with up to MaxCards cards
ListPages == { MkPage(<<Section(2, 1, UPCOMING_MATCHES, cs)>>) :
                   cs \in SeqsUpTo(KeyCards, MaxCards) }
\* the landmark at every depth below the element that holds the cards
ShapePages == UNION { { MkPage(<<Section(w, a, str, <<GoodCard>>)>>) :
                            a \in 0..w, str \in LandmarkTexts } :
                      w \in 0..MaxWrappers }
\* two sections: the first landmark may fail and the second succeed
TwoSectionPages ==
    { MkPage(<<Section(w1, w1, s1, c1), Section(w2, a2, s2, <<GoodCard>>)>>) :
          w1 \in {1, MaxWrappers}, s1 \in {UPCOMING_MATCHES, NoText},
          c1 \in {<<>>, <<AugCard>>},
          w2 \in {1, MaxWrappers}, a2 \in {0, 1}, s2 \in {UPCOMING_MATCHES, NoText} }
NoCardPages == { MkPage(<<Section(w, 0, str, <<>>)>>) :
                   w \in {0, 3}, str \in LandmarkTexts }
               \cup { MkPage(<<>>) }

Pages == CardPages \cup ListPages \cup ShapePages \cup TwoSectionPages \cup NoCardPages

Todays == { <<2025, 1, 1>>, <<2025, 7, 26>>, <<2025, 7, 27>>, <<2025, 8, 3>>, <<2025, 12, 31>> }

(***************************************************************************)
(* Contact files: an optional title line, a header row and up to MaxRows   *)
(* data rows.                                                              *)
(***************************************************************************)
RECURSIVE join(_, _)
join(parts, sep) ==
    IF parts = <<>> THEN <<>>
    ELSE IF Len(parts) = 1 THEN parts[1]
    ELSE parts[1] \o <<sep>> \o join(Tail(parts), sep)

RivalEmail == <<"r","i","v","a","l","@","x",".","c","o","m">>
ViceEmail  == <<"v","@","x",".","c","o","m">>
TitanEmail == <<"t","@","y",".","o","r","g">>
NewEmail   == <<"n","e","w","@","x",".","c","o","m">>
LowEmail   == <<"l","o","w","@","x",".","c","o","m">>
NotAnEmail == <<"n","o","t","-","a","n","-","e","m","a","i","l">>
Rivals     == <<"R","i","v","a","l","s">>
rivals     == lower(Rivals)

HeaderRows == { <<TeamHeader, CaptainEmail, ViceCaptainEmail>>,
                <<TeamHeader, CaptainEmail>>,
                <<CaptainEmail, TeamHeader>>,
                <<<<"N","a","m","e">>, CaptainEmail>> }
DataRows == { <<RivalsCC, RivalEmail>>,
              <<RivalsCC, NewEmail, ViceEmail>>,
              <<Rivals, ViceEmail, <<>>>>,
              <<lower(RivalsCC), LowEmail>>,
              <<TitansCC, NotAnEmail, TitanEmail>>,
              <<TitansCC, NotAnEmail, <<"a","@","b">>>>,
              <<TitansCC, <<>>, <<>>>>,
              <<<<>>, RivalEmail, ViceEmail>>,
              <<RivalEmail, RivalsCC>>,
              <<>> }

MaxRows == 2

MkFile(title, header, rows) ==
    LET lines == (IF title THEN <<TeamContacts>> ELSE <<>>)
                 \o <<join(header, "\t")>>
                 \o [i \in 1..Len(rows) |-> join(rows[i], "\t")]
    IN  join(lines, "\n") \o <<"\n">>

ContactFiles ==
    { MkFile(title, header, rows) :
          title \in BOOLEAN, header \in HeaderRows, rows \in SeqsUpTo(DataRows, MaxRows) }
    \cup { <<>>, TeamContacts \o <<"\n">>, join(<<TeamHeader, CaptainEmail>>, "\t") }

\* the file of the scenario: Team\tCaptain Email\nRivals CC\trival@x.com
ScenarioFile == join(<<join(<<TeamHeader, CaptainEmail>>, "\t"),
                       join(<<RivalsCC, RivalEmail>>, "\t")>>, "\n")

Queries == { RivalsCC, rivals, upper(RivalsCC), Rivals, TitansCC,
             RivalsCC \o <<" ","J","u","n","i","o","r","s">>, <<"U","n","k","n","o","w","n"," ","X","I">>, <<"C","C">>, <<>> }

(***************************************************************************)
(* Strings handed to the validator: every string of up to MaxEmailLen      *)
(* characters of EmailAlphabet, and the addresses of the examples.         *)
(***************************************************************************)
MaxEmailLen == 6
EmailAlphabet == {"a", "@", ".", "|"}
ExampleEmails == { <<"a","@","b",".","c","o">>, NotAnEmail, <<"@","b",".","c","o">>, <<"a","@","b">>,
                   <<"a","@","b",".","c","o">> \o <<" ","(","c","a","p","t","a","i","n",")">>, <<"a","@","b",".","c","o">> \o <<",">> \o RivalEmail,
                   RivalEmail, TitanEmail, <<"_","a","@","b",".","c","o">>, <<".","a","@","b",".","c","o">>,
                   <<"a","@","b",".","c","0">>, <<"a","@","b",".","|","c">> }
EmailInputs == SeqsUpTo(EmailAlphabet, MaxEmailLen) \cup ExampleEmails

(***************************************************************************)
(* State.                                                                  *)
(***************************************************************************)
VARIABLES
    pc,              \* where the run (or the component under test) stands
    page,            \* the document the fixtures URL serves
    today,           \* date.today()
    contacts_file,   \* the content of contacts.txt, NoText when it cannot be opened
    template,        \* the content of the template file, NoneDict when unreadable
    contacts_data,   \* ContactsParser.contacts_data
    service,         \* EmailManager.service is set
    soup,            \* run(): the fetched page, <<>> for None
    fetch_outcome,   \* how the request for the page ended, "none" before it
    games,           \* run(): the extracted games
    idx,             \* run(): the position of the loop over games
    success_count,   \* run(): success_count
    result,          \* the value run() returned (read when pc = "done")
    processed,       \* the games handed to _process_game, in order, as indices
    outcomes,        \* what _process_game returned for each of them
    escaped,         \* an exception left _process_game
    lookups,         \* the team names handed to get_team_contact
    gmail_requests,  \* the requests sent to the Gmail API
    account,         \* the Gmail account: its drafts and its sent messages
    section,         \* extractor: what _find_upcoming_matches_section returned
    entry,           \* extractor: the card last parsed on its own (0: none)
    entry_date,      \* extractor: what _extract_date returned for it
    entry_info,      \* extractor: what _parse_game_entry returned for it
    query,           \* directory: the team name last looked up
    lookup_result,   \* directory: what get_team_contact returned for it
    email,           \* validator: the string under validation
    email_valid,     \* validator: what _is_valid_email returned for it
    auth,            \* what _authenticate met
    met,             \* what each call of _process_game / draft_game_invitation met
    game_info,       \* drafter: the game in hand
    recipients,      \* drafter: the contact emails in hand
    embedded,        \* drafter: what _embed_team_logos returned
    drafted,         \* drafter: what draft_game_invitation / _process_game returned
    send_date,       \* drafter: what calculate_send_date returned
    reply,           \* LLM extractor: what the model call met
    llm_result,      \* LLM extractor: what extract_team_contact returned
    llm_contacts,    \* LLM extractor: what get_all_team_contacts returned
    listing          \* directory: what list_all_teams / get_all_team_contacts returned

vars == <<pc, page, today, contacts_file, template, contacts_data, service, soup, fetch_outcome,
          games, idx, success_count, result, processed, outcomes, escaped, lookups,
          gmail_requests, account, section, entry, entry_date, entry_info,
          query, lookup_result, email, email_valid, auth, met,
          game_info, recipients, embedded, drafted, send_date, reply, llm_result,
          llm_contacts, listing>>

inputVars     == <<page, today, contacts_file, template>>
runVars       == <<soup, fetch_outcome, games, idx, success_count, result, processed, outcomes,
                   escaped, lookups, gmail_requests, account, met>>
extractVars   == <<section, entry, entry_date, entry_info>>
directoryVars == <<query, lookup_result, listing>>
validatorVars == <<email, email_valid>>
drafterVars   == <<game_info, recipients, embedded, drafted, send_date>>
llmVars       == <<reply, llm_result, llm_contacts>>

EmptyAccount == [drafts |-> <<>>, sent |-> <<>>]

\* the values of the variables before anything ran
Blank ==
    /\ contacts_data = <<>>
    /\ service = FALSE
    /\ soup = <<>>
    /\ fetch_outcome = "none"
    /\ games = <<>>
    /\ idx = 0
    /\ success_count = 0
    /\ result = FALSE
    /\ processed = <<>>
    /\ outcomes = <<>>
    /\ escaped = FALSE
    /\ lookups = <<>>
    /\ gmail_requests = <<>>
    /\ account = EmptyAccount
    /\ section = 0
    /\ entry = 0
    /\ entry_date = None
    /\ entry_info = NoneDict
    /\ query = <<>>
    /\ lookup_result = None
    /\ email = <<>>
    /\ email_valid = FALSE
    /\ auth = NoneDict
    /\ met = <<>>
    /\ game_info = NoneDict
    /\ recipients = <<>>
    /\ embedded = NoneDict
    /\ drafted = NoneDict
    /\ send_date = NoneDict
    /\ reply = NoneDict
    /\ llm_result = NoneDict
    /\ llm_contacts = NoneDict
    /\ listing = NoneDict

(***************************************************************************)
(* The run: BiweeklyTaskAutomation() and run().                            *)
(***************************************************************************)
RunPages == ListPages \cup NoCardPages
            \cup { MkPage(<<Section(w, 0, UPCOMING_MATCHES, <<GoodCard, AugCard>>)>>) :
                       w \in {SearchDepth - 1, SearchDepth} }
RunTodays == { <<2025, 7, 26>>, <<2025, 7, 27>> }
RunFiles == { NoText, ScenarioFile,
                  MkFile(TRUE, <<TeamHeader, CaptainEmail, ViceCaptainEmail>>,
                         << <<TitansCC, NotAnEmail, TitanEmail>>, <<RivalsCC, NotAnEmail>> >>) }
Templates == { NoneDict, EMAIL_TEMPLATE }
\* the cases of authentication of a run
RunAuthCases == { a \in AuthCases :
                     \/ a.token \in {"valid", "stale"}
                     \/ a.token = "absent" /\ ~a.flow_ok
                     \/ a.token = "refreshable" /\ ~a.refresh_ok /\ a.build_ok }

Init ==
    /\ pc = "new"
    /\ page \in RunPages
    /\ today \in RunTodays
    /\ contacts_file \in RunFiles
    /\ template \in Templates
    /\ Blank

\* BiweeklyTaskAutomation.__init__: ContactsParser() loads the contacts and
\* EmailManager() authenticates, which sets self.service or leaves it None
Construct ==
    /\ pc = "new"
    /\ contacts_data' = _load_contacts(contacts_file)
    /\ \E a \in RunAuthCases :
          /\ auth' = a
          /\ service' = _authenticate(a).service
    /\ pc' = "start"
    /\ UNCHANGED <<inputVars, runVars, extractVars, directoryVars, validatorVars, drafterVars, llmVars>>

\* how session.get and raise_for_status can end
FetchOutcomes == { "ok", "transport error", "http error" }

\* a variant without raise_for_status: the body of an error response is parsed
get_page_content_any_status(served, outcome) ==
    IF outcome = "transport error" THEN <<>> ELSE served

\* WebScraper.get_page_content: the parsed page, or None (<<>>) when
\* session.get raised or raise_for_status raised on an error status
get_page_content(served, outcome) ==
    IF outcome = "ok" THEN served ELSE <<>>

\* run(), lines 34-38: "if not soup: return False"
FetchPage ==
    /\ pc = "start"
    /\ \E outcome \in FetchOutcomes :
          /\ fetch_outcome' = outcome
          /\ soup' = get_page_content(page, outcome)
          /\ IF soup' # <<>>
             THEN /\ pc' = "fetched"
                  /\ UNCHANGED result
             ELSE /\ result' = FALSE
                  /\ pc' = "done"
    /\ UNCHANGED <<inputVars, contacts_data, service, auth, games, idx, success_count,
                   processed, outcomes, escaped, lookups, gmail_requests, account, met,
                   extractVars, directoryVars, validatorVars, drafterVars, llmVars>>

\* run(), lines 40-49
ExtractGames ==
    /\ pc = "fetched"
    /\ games' = extract_sunday_games(soup, today)
    /\ IF games' = <<>>
       THEN /\ result' = result_no_games
            /\ pc' = "done"
            /\ UNCHANGED <<idx, success_count>>
       ELSE /\ success_count' = 0
            /\ idx' = 1
            /\ pc' = "loop"
            /\ UNCHANGED result
    /\ UNCHANGED <<inputVars, contacts_data, service, auth, soup, fetch_outcome, processed, outcomes,
                   escaped, lookups, gmail_requests, account, met,
                   extractVars, directoryVars, validatorVars, drafterVars, llmVars>>

\* what one call of _process_game can meet
Envs == [raises : BOOLEAN, fetch_opponent : FetchResults, fetch_sparta : FetchResults,
         map_exists : BOOLEAN, api_error : BOOLEAN]
\* those of a run: both logos are fetched over the same network, the map is
\* on disk, and what follows an exception is not met (held at one value)
RunEnvs == { e \in Envs :
                /\ e.fetch_sparta = e.fetch_opponent
                /\ e.map_exists
                /\ e.raises => (e.fetch_opponent.status_code = 200 /\ ~e.api_error) }

\* a variant that takes a failed game again
next_game_retrying(i, ret) == IF ret THEN i + 1 ELSE i

\* the for loop of run() takes the next game whatever _process_game returned
next_game(i, ret) == i + 1

\* run(), lines 50-52: one iteration of the loop, the whole of _process_game
ProcessGame ==
    /\ pc = "loop"
    /\ idx <= Len(games)
    /\ \E e \in RunEnvs :
          LET env == [raises |-> e.raises, fetch_opponent |-> e.fetch_opponent,
                      fetch_sparta |-> e.fetch_sparta, map_exists |-> e.map_exists,
                      api_error |-> e.api_error, template |-> template]
              r == _process_game(contacts_data, service, games[idx], env)
          IN  /\ _authenticate(auth).creds = "stale" => e.api_error
              /\ met' = Append(met, env)
              /\ processed' = Append(processed, idx)
              /\ lookups' = lookups \o r.lookups
              /\ gmail_requests' = gmail_requests \o r.requests
              /\ account' = serve_requests(account, r.requests)
              /\ IF r.escaped
                 THEN \* lines 57-59: the handler of run()
                      /\ escaped' = TRUE
                      /\ result' = FALSE
                      /\ pc' = "done"
                      /\ UNCHANGED <<idx, success_count, outcomes>>
                 ELSE /\ outcomes' = Append(outcomes, r.ret)
                      /\ success_count' = IF r.ret THEN success_count + 1 ELSE success_count
                      /\ idx' = next_game(idx, r.ret)
                      /\ UNCHANGED <<escaped, result, pc>>
    /\ UNCHANGED <<inputVars, contacts_data, service, auth, soup, fetch_outcome, games,
                   extractVars, directoryVars, validatorVars, drafterVars, llmVars>>

\* run(), lines 54-55
Finish ==
    /\ pc = "loop"
    /\ idx > Len(games)
    /\ result' = result_of_count(success_count)
    /\ pc' = "done"
    /\ UNCHANGED <<inputVars, contacts_data, service, auth, soup, fetch_outcome, games, idx, success_count,
                   processed, outcomes, escaped, lookups, gmail_requests, account, met,
                   extractVars, directoryVars, validatorVars, drafterVars, llmVars>>

Next == Construct \/ FetchPage \/ ExtractGames \/ ProcessGame \/ Finish

Spec == Init /\ [][Next]_vars

\* extract_sunday_games makes no outbound call and returns on every page, a
\* list of games or the empty list of its handler (lines 96-98): run() leaves
\* line 40 for the return of line 44 or for the loop of line 50
ExtractionReturns == pc = "fetched" /\ pc' \in {"done", "loop"}

\* run() is one sequential thread and each of its steps ends once its outbound
\* calls (the page fetch, the logo fetches, the Gmail requests) have returned
\* or failed: a step of run() that can be taken is taken
SpecLive ==
    /\ Spec
    /\ WF_vars(FetchPage)
    /\ WF_pc(ExtractionReturns)
    /\ WF_vars(ProcessGame)
    /\ WF_vars(Finish)

(***************************************************************************)
(* The extractor on its own: every page, every today.                      *)
(***************************************************************************)
InitExtract ==
    /\ pc = "page"
    /\ page \in Pages
    /\ today \in Todays
    /\ contacts_file = NoText
    /\ template = NoneDict
    /\ Blank

\* extract_sunday_games(soup) on the page
ExtractSundayGames ==
    /\ pc \in {"page", "parsed"}
    /\ section' = _find_upcoming_matches_section(page)
    /\ games' = extract_sunday_games(page, today)
    /\ pc' = IF pc = "page" THEN "extracted" ELSE "both"
    /\ UNCHANGED <<inputVars, contacts_data, service, auth, soup, fetch_outcome, idx, success_count, result,
                   processed, outcomes, escaped, lookups, gmail_requests, account, met,
                   entry, entry_date, entry_info, directoryVars, validatorVars, drafterVars, llmVars>>

\* _extract_date(entry) and _parse_game_entry(entry) on one card of the page
ParseGameEntry ==
    /\ pc \in {"page", "extracted"}
    /\ \E k \in 1..Len(page) :
          /\ is_schedule_entry(page[k])
          /\ entry' = k
          /\ entry_date' = _extract_date(page[k].card)
          /\ entry_info' = _parse_game_entry(page[k].card)
    /\ pc' = IF pc = "page" THEN "parsed" ELSE "both"
    /\ UNCHANGED <<inputVars, contacts_data, service, auth, soup, fetch_outcome, games, idx, success_count,
                   result, processed, outcomes, escaped, lookups, gmail_requests,
                   account, met, section, directoryVars, validatorVars, drafterVars, llmVars>>

NextExtract == ExtractSundayGames \/ ParseGameEntry

SpecExtract == InitExtract /\ [][NextExtract]_vars

(***************************************************************************)
(* The contact directory on its own: every contact file, every query.      *)
(***************************************************************************)
InitDirectory ==
    /\ pc = "new"
    /\ page = MkPage(<<>>)
    /\ today = <<2025, 7, 26>>
    /\ contacts_file \in ContactFiles \cup {ScenarioFile}
    /\ template = EMAIL_TEMPLATE
    /\ Blank

\* ContactsParser.__init__
LoadContacts ==
    /\ pc = "new"
    /\ contacts_data' = _load_contacts(contacts_file)
    /\ pc' = "loaded"
    /\ UNCHANGED <<inputVars, service, auth, runVars, extractVars, directoryVars, validatorVars, drafterVars, llmVars>>

\* get_team_contact(team_name)
GetTeamContact ==
    /\ pc \in {"loaded", "looked up"}
    /\ \E team_name \in Queries :
          /\ query' = team_name
          /\ lookup_result' = get_team_contact(contacts_data, team_name)
          /\ contacts_data' = contacts_after_lookup(contacts_data, team_name)
    /\ pc' = "looked up"
    /\ UNCHANGED <<inputVars, service, auth, runVars, extractVars, listing, validatorVars, drafterVars, llmVars>>

\* list_all_teams()
ListAllTeams ==
    /\ pc \in {"loaded", "looked up"}
    /\ listing' = [op |-> "list_all_teams", teams |-> list_all_teams(contacts_data)]
    /\ contacts_data' = contacts_after_listing(contacts_data)
    /\ pc' = "used"
    /\ UNCHANGED <<inputVars, service, auth, runVars, extractVars, query, lookup_result,
                   validatorVars, drafterVars, llmVars>>

\* get_all_team_contacts()
GetAllContacts ==
    /\ pc \in {"loaded", "looked up"}
    /\ listing' = [op |-> "get_all_team_contacts",
                   contacts |-> get_all_team_contacts(contacts_data)]
    /\ contacts_data' = contacts_after_listing(contacts_data)
    /\ pc' = "used"
    /\ UNCHANGED <<inputVars, service, auth, runVars, extractVars, query, lookup_result,
                   validatorVars, drafterVars, llmVars>>

\* the record of the scenario's card
GoodGame == [opponent |-> RivalsCC, date |-> <<2025, 7, 27>>,
             opponent_logo |-> "logo2.jpg", sparta_logo |-> "logo1.png"]
\* the games and the mail API of the per-game step on the loaded table
TableGames == { GoodGame, [GoodGame EXCEPT !.opponent = <<"U","n","k","n","o","w","n"," ","X","I">>] }
TableEnvs == { e \in RunEnvs : ~e.raises /\ e.fetch_opponent.status_code = 200 }

\* _process_game(game) with this table, the mail service built: the lookup of
\* the opponent, then draft_game_invitation
ProcessGameOnTable ==
    /\ pc \in {"loaded", "looked up"}
    /\ \E g \in TableGames, e \in TableEnvs :
          LET env == [raises |-> e.raises, fetch_opponent |-> e.fetch_opponent,
                      fetch_sparta |-> e.fetch_sparta, map_exists |-> e.map_exists,
                      api_error |-> e.api_error, template |-> template]
              a == [token |-> "valid", refresh_ok |-> TRUE, flow_ok |-> TRUE, build_ok |-> TRUE]
              r == _process_game(contacts_data, _authenticate(a).service, g, env)
          IN  /\ auth' = a
              /\ service' = _authenticate(a).service
              /\ game_info' = g
              /\ met' = <<env>>
              /\ drafted' = [ret |-> r.ret, escaped |-> r.escaped]
              /\ lookups' = r.lookups
              /\ gmail_requests' = r.requests
              /\ account' = serve_requests(account, r.requests)
              /\ contacts_data' = IF r.lookups = <<>> THEN contacts_data
                                  ELSE contacts_after_lookup(contacts_data, r.lookups[1])
    /\ pc' = "used"
    /\ UNCHANGED <<inputVars, soup, fetch_outcome, games, idx, success_count, result, processed, outcomes,
                   escaped, extractVars, directoryVars, validatorVars,
                   recipients, embedded, send_date, llmVars>>

NextDirectory == LoadContacts \/ GetTeamContact \/ ListAllTeams \/ GetAllContacts
                 \/ ProcessGameOnTable

SpecDirectory == InitDirectory /\ [][NextDirectory]_vars

(***************************************************************************)
(* The validator on its own.                                               *)
(***************************************************************************)
InitValidator ==
    /\ pc = "input"
    /\ page = MkPage(<<>>)
    /\ today = <<2025, 7, 26>>
    /\ contacts_file = NoText
    /\ template = NoneDict
    /\ Blank

\* _is_valid_email(email)
ValidateEmail ==
    /\ pc = "input"
    /\ \E e \in EmailInputs :
          /\ email' = e
          /\ email_valid' = _is_valid_email(e)
    /\ pc' = "validated"
    /\ UNCHANGED <<inputVars, contacts_data, service, auth, runVars, extractVars, directoryVars, drafterVars, llmVars>>

NextValidator == ValidateEmail

SpecValidator == InitValidator /\ [][NextValidator]_vars
(***************************************************************************)
(* The drafter and the per-game step on their own: every game record,      *)
(* every recipient list, everything the calls can meet.                    *)
(***************************************************************************)
\* the dates a game can have: every day of seven months of two years, one
\* of them a leap year
DrafterDates == { dt \in { <<y, m, d>> : y \in {2024, 2025}, m \in {1, 2, 3, 7, 8, 12}, d \in 1..31 } :
                     dt[3] <= days_in_month(dt[1], dt[2]) }
LogoUrls == { "logo2.jpg", "logo1.png", "", None }
\* the games handed to the drafter: Sunday and Saturday games of a known and
\* of an unknown team, with and without logos, and a dict that is no record
DrafterGames ==
    { [opponent |-> o, date |-> dt, opponent_logo |-> ol, sparta_logo |-> sl] :
          o \in {RivalsCC, <<"U","n","k","n","o","w","n"," ","X","I">>},
          dt \in {<<2025, 7, 27>>, <<2025, 7, 26>>},
          ol \in {"logo2.jpg", ""}, sl \in {"logo1.png", None} }
    \cup { NoneDict }
RecipientLists == { <<RivalEmail>>, <<NewEmail, ViceEmail>>, <<>> }
\* a template file without the two logo placeholders
PlainTemplate == [EMAIL_TEMPLATE EXCEPT
                     !.opponent_logo = [kind |-> "url", url |-> "static.png"],
                     !.sparta_logo   = [kind |-> "url", url |-> "static.png"]]
DrafterFiles == { ScenarioFile, NoText }

InitDrafter ==
    /\ pc = "new"
    /\ page = MkPage(<<>>)
    /\ today = <<2025, 7, 26>>
    /\ contacts_file \in DrafterFiles
    /\ template \in Templates \cup {PlainTemplate}
    /\ Blank

\* _embed_team_logos(html_content, opponent_logo_url, sparta_logo_url)
EmbedTeamLogos ==
    /\ pc = "start"
    /\ template # NoneDict
    /\ \E ol \in LogoUrls, sl \in LogoUrls, fo \in FetchResults, fs \in FetchResults :
          /\ game_info' = [GoodGame EXCEPT !.opponent_logo = ol, !.sparta_logo = sl]
          /\ met' = << [fetch_opponent |-> fo, fetch_sparta |-> fs] >>
          /\ embedded' = _embed_team_logos(template, ol, sl, fo, fs)
    /\ pc' = "embedded"
    /\ UNCHANGED <<inputVars, contacts_data, service, auth, soup, fetch_outcome, games, idx, success_count,
                   result, processed, outcomes, escaped, lookups, gmail_requests, account,
                   extractVars, directoryVars, validatorVars,
                   recipients, drafted, send_date, llmVars>>

\* calculate_send_date(game_date)
CalculateSendDate ==
    /\ pc = "start"
    /\ \E dt \in DrafterDates :
          /\ game_info' = [GoodGame EXCEPT !.date = dt]
          /\ send_date' = calculate_send_date(dt)
    /\ pc' = "dated"
    /\ UNCHANGED <<inputVars, contacts_data, service, auth, runVars,
                   extractVars, directoryVars, validatorVars,
                   recipients, embedded, drafted, llmVars>>

\* draft_game_invitation(game_info, contact_emails)
DraftGameInvitation ==
    /\ pc = "start"
    /\ \E g \in DrafterGames, contact_emails \in RecipientLists, e \in Envs :
          LET env == [raises |-> e.raises, fetch_opponent |-> e.fetch_opponent,
                      fetch_sparta |-> e.fetch_sparta, map_exists |-> e.map_exists,
                      api_error |-> e.api_error, template |-> template]
              r == draft_game_invitation(service, g, contact_emails, env)
          IN  /\ ~e.raises
              /\ _authenticate(auth).creds = "stale" => e.api_error
              /\ game_info' = g
              /\ recipients' = contact_emails
              /\ met' = <<env>>
              /\ drafted' = [ret |-> r.ret, escaped |-> r.escaped]
              /\ gmail_requests' = r.requests
              /\ account' = serve_requests(account, r.requests)
    /\ pc' = "drafted"
    /\ UNCHANGED <<inputVars, contacts_data, service, auth, soup, fetch_outcome, games, idx, success_count,
                   result, processed, outcomes, escaped, lookups,
                   extractVars, directoryVars, validatorVars,
                   embedded, send_date, llmVars>>

\* _process_game(game) on one game
ProcessOneGame ==
    /\ pc = "start"
    /\ \E g \in DrafterGames, e \in Envs :
          LET env == [raises |-> e.raises, fetch_opponent |-> e.fetch_opponent,
                      fetch_sparta |-> e.fetch_sparta, map_exists |-> e.map_exists,
                      api_error |-> e.api_error, template |-> template]
              r == _process_game(contacts_data, service, g, env)
          IN  /\ e.map_exists
              /\ e.fetch_sparta = e.fetch_opponent
              /\ _authenticate(auth).creds = "stale" => e.api_error
              /\ game_info' = g
              /\ met' = <<env>>
              /\ drafted' = [ret |-> r.ret, escaped |-> r.escaped]
              /\ lookups' = r.lookups
              /\ gmail_requests' = r.requests
              /\ account' = serve_requests(account, r.requests)
    /\ pc' = "processed"
    /\ UNCHANGED <<inputVars, contacts_data, service, auth, soup, fetch_outcome, games, idx, success_count,
                   result, processed, outcomes, escaped,
                   extractVars, directoryVars, validatorVars,
                   recipients, embedded, send_date, llmVars>>

NextDrafter == Construct \/ EmbedTeamLogos \/ CalculateSendDate
               \/ DraftGameInvitation \/ ProcessOneGame

SpecDrafter == InitDrafter /\ [][NextDrafter]_vars

(***************************************************************************)
(* The LLM contact extractor on its own: every contacts file, every reply  *)
(* of up to MaxItems comma-separated items.                                *)
(***************************************************************************)
MaxItems == 2
ABCo == <<"a","@","b",".","c","o">>
ReplyItems == { ABCo, <<" ">> \o RivalEmail \o <<"\n">>, NotAnEmail, <<"a","@","b">>,
                NOT_FOUND, <<" ","n","o","t","_","F","o","u","n","d"," ">>, <<" ">>, <<>> }
ReplyTexts == { join(items, ",") : items \in SeqsUpTo(ReplyItems, MaxItems) }
OllamaOutcomes ==
    { [kind |-> k, text |-> <<>>] :
          k \in {"request_exception", "http_error", "bad_json", "null_response", "no_response"} }
    \cup { [kind |-> "text", text |-> t] : t \in ReplyTexts }

\* what the model writes when asked for all contacts: a JSON object of up to
\* MaxItems teams, another JSON value, "Name: email, email" lines, prose, or
\* JSON cut short
Quoted(s) == <<"\"">> \o s \o <<"\"">>
RECURSIVE JoinWith(_, _)
JoinWith(parts, sep) ==
    IF parts = <<>> THEN <<>>
    ELSE IF Len(parts) = 1 THEN parts[1]
    ELSE parts[1] \o sep \o JoinWith(Tail(parts), sep)
DumpList(emails) ==
    <<"[">> \o JoinWith([i \in 1..Len(emails) |-> Quoted(emails[i])], <<",", " ">>) \o <<"]">>
DumpDict(entries) ==
    <<"{">> \o JoinWith([i \in 1..Len(entries) |->
                            Quoted(entries[i].team) \o <<":", " ">> \o DumpList(entries[i].emails)],
                        <<",", " ">>) \o <<"}">>
TeamEntries == { [team |-> RivalsCC, emails |-> <<RivalEmail>>],
                 [team |-> RivalsCC, emails |-> <<NewEmail, ViceEmail>>],
                 [team |-> TitansCC, emails |-> <<NotAnEmail, TitanEmail>>],
                 [team |-> TitansCC, emails |-> <<>>] }
JsonMappings == SeqsUpTo(TeamEntries, MaxItems)
JsonOthers == { <<"4","2">>, <<"n","u","l","l">>, <<"t","r","u","e">>, <<"-","1",".","5">>,
                Quoted(RivalsCC), DumpList(<<RivalEmail>>), <<"[","]">>,
                <<"{","\"","a","\"",":"," ","1","}">> }
ReplyLines == { RivalsCC \o <<":"," ">> \o RivalEmail \o <<","," ">> \o ViceEmail,
                TitansCC \o <<":">> \o NotAnEmail \o <<",">> \o TitanEmail,
                TitansCC \o <<":"," ">> \o NotAnEmail,
                <<"a","b","c",":"," ">> \o ABCo,
                <<"H","e","r","e"," ","a","r","e"," ","t","h","e"," ","c","o","n","t","a","c","t","s">>,
                ABCo \o <<":"," ">> \o NewEmail }
LineReplies == { join(lines, "\n") : lines \in SeqsUpTo(ReplyLines, MaxItems) }
CutShort == { <<"{">> \o Quoted(RivalsCC) \o <<":"," ","[">> \o Quoted(RivalEmail),
              DumpDict(<< [team |-> RivalsCC, emails |-> <<RivalEmail>>] >>) \o <<" ","o","k">> }
AllContactsOutcomes ==
    { [kind |-> k, text |-> <<>>] :
          k \in {"request_exception", "http_error", "bad_json", "null_response", "no_response"} }
    \cup { [kind |-> "text", text |-> t] :
               t \in { DumpDict(m) : m \in JsonMappings } \cup JsonOthers
                     \cup LineReplies \cup CutShort }

InitLLM ==
    /\ pc = "llm"
    /\ page = MkPage(<<>>)
    /\ today = <<2025, 7, 26>>
    /\ contacts_file \in { NoText, <<>>, ScenarioFile }
    /\ template = NoneDict
    /\ Blank

\* extract_team_contact(team_name)
ExtractTeamContact ==
    /\ pc = "llm"
    /\ \E team_name \in {RivalsCC, TitansCC}, outcome \in OllamaOutcomes :
          /\ query' = team_name
          /\ reply' = outcome
          /\ llm_result' = extract_team_contact(team_name, contacts_file, outcome)
    /\ pc' = "answered"
    /\ UNCHANGED <<inputVars, contacts_data, service, auth, runVars, extractVars,
                   lookup_result, listing, validatorVars, drafterVars, llm_contacts>>

\* get_all_team_contacts()
GetAllTeamContacts ==
    /\ pc = "llm"
    /\ \E outcome \in AllContactsOutcomes :
          /\ reply' = outcome
          /\ llm_contacts' = llm_get_all_team_contacts(contacts_file, outcome)
    /\ pc' = "listed"
    /\ UNCHANGED <<inputVars, contacts_data, service, auth, runVars, extractVars,
                   directoryVars, validatorVars, drafterVars, llm_result>>

NextLLM == ExtractTeamContact \/ GetAllTeamContacts

SpecLLM == InitLLM /\ [][NextLLM]_vars

(***************************************************************************)
(* Properties.                                                             *)
(***************************************************************************)
\* the calendar, read off the ordinal: day 1 (0001-01-01) is a Monday, so the
\* Sundays are the multiples of 7
IsSunday(dt) == toordinal(dt) % 7 = 0
IsAfter(a, b) == toordinal(a) > toordinal(b)
ActualWeekdayName(dt) ==
    LET r == toordinal(dt) % 7 IN IF r = 0 THEN Sunday ELSE DayNames[r]

\* C1: after extract_sunday_games, every returned record is dated strictly
\* after today and on a Sunday, and a card that parses to a date of today or
\* earlier, or to another weekday, is not among the returned records.
C1_OnlyFutureSundays ==
    pc \in {"extracted", "both"} =>
        /\ \A i \in 1..Len(games) :
              IsAfter(games[i].date, today) /\ IsSunday(games[i].date)
        /\ (pc = "both" /\ entry_info # NoneDict
              /\ (~IsAfter(entry_info.date, today) \/ ~IsSunday(entry_info.date)))
           => \A i \in 1..Len(games) : games[i] # entry_info

\* a game was returned while another card of the page, which parses, was
\* filtered out for its date
C1_Witness ==
    /\ pc = "both"
    /\ Len(games) >= 1
    /\ entry_info # NoneDict
    /\ (~IsAfter(entry_info.date, today) \/ ~IsSunday(entry_info.date))

\* C2: _extract_date returns a date only when the weekday of that date is the
\* one the card's label names, so no game record carries a date whose weekday
\* differs from its card's label.
C2_DateAgreesWithLabel ==
    pc \in {"parsed", "both"} =>
        /\ entry_date # None =>
              ActualWeekdayName(entry_date) = strip(page[entry].card.h4)
        /\ entry_info # NoneDict =>
              ActualWeekdayName(entry_info.date) = strip(page[entry].card.h4)

\* a card whose label is padded with whitespace got its date
C2_Witness ==
    /\ pc = "parsed"
    /\ entry_date # None
    /\ page[entry].card.h4 # strip(page[entry].card.h4)
    /\ entry_info # NoneDict

\* C3: get_team_contact returns a non-empty list or None, never an empty list,
\* and every stored team has at least one email.
C3_NeverEmptyList ==
    /\ \A i \in 1..Len(contacts_data) : contacts_data[i].emails # <<>>
    /\ pc = "looked up" => (lookup_result = None \/ lookup_result # <<>>)

\* a team whose row holds no valid email was not stored, and its lookup says
\* not found
C3_Witness ==
    /\ pc = "looked up"
    /\ contacts_file = MkFile(FALSE, <<TeamHeader, CaptainEmail, ViceCaptainEmail>>,
                              << <<TitansCC, NotAnEmail, <<"a","@","b">> >> >>)
    /\ query = TitansCC
    /\ lookup_result = None

C5_EveryGameOnceInOrder ==
    /\ ~escaped
    /\ \A i \in 1..Len(processed) : processed[i] = i
    /\ pc = "loop" => Len(processed) = idx - 1
    /\ pc = "done" => Len(processed) = Len(games)

\* the first of two games failed and the second was processed all the same
C5_Witness ==
    /\ pc = "done"
    /\ Len(games) = 2
    /\ processed = <<1, 2>>
    /\ outcomes = <<FALSE, TRUE>>

\* C6: with the page fetched, run() returns True iff no game was extracted or
\* some game was processed successfully.
C6_RunResult ==
    (pc = "done" /\ soup # <<>>) =>
        (result <=> (games = <<>> \/ \E i \in 1..Len(outcomes) : outcomes[i]))

\* two games, both failed: the run failed
C6_Witness ==
    /\ pc = "done"
    /\ soup # <<>>
    /\ Len(games) = 2
    /\ outcomes = <<FALSE, FALSE>>
    /\ ~result

\* the landmark spans and the fixture cards of a document
Landmarks(doc) ==
    { k \in 1..Len(doc) :
          /\ doc[k].tag = "span"
          /\ doc[k].string # NoText
          /\ \E a \in 1..Len(doc[k].string) : \E b \in a..Len(doc[k].string) :
                upper(SubSeq(doc[k].string, a, b)) = UPCOMING_MATCHES }
FixtureCards(doc) == { k \in 1..Len(doc) : doc[k].class = "schedule-all" }
RECURSIVE AncestorAt(_, _, _)
\* the ancestor of element k that is `level` levels up, 0 when there is none
AncestorAt(doc, k, level) ==
    IF k = 0 THEN 0
    ELSE IF level = 0 THEN k
    ELSE AncestorAt(doc, doc[k].parent, level - 1)
Below(doc, k, n) == \E level \in 1..Len(doc) : AncestorAt(doc, k, level) = n
\* the fixture cards of the upcoming section: those below an ancestor of a landmark
UpcomingCards(doc) ==
    { c \in FixtureCards(doc) :
          \E b \in Landmarks(doc) : \E n \in 1..Len(doc) : Below(doc, b, n) /\ Below(doc, c, n) }

\* C7: a run on a fetched page with no fixture card in the upcoming section
\* returns True, processes no game, looks up no contact and creates no draft.
C7_NoCardsIsSuccess ==
    (pc = "done" /\ soup # <<>> /\ UpcomingCards(page) = {}) =>
        /\ result
        /\ processed = <<>>
        /\ lookups = <<>>
        /\ gmail_requests = <<>>
        /\ account = EmptyAccount

\* a finished run on a page with the landmark and no card
C7_Witness ==
    /\ pc = "done"
    /\ soup # <<>>
    /\ Landmarks(page) # {}
    /\ FixtureCards(page) = {}
    /\ result

\* some landmark has, among its first SearchDepth ancestors, one with a
\* fixture card below it
Locatable(doc) ==
    \E b \in Landmarks(doc) : \E level \in 1..SearchDepth : \E c \in FixtureCards(doc) :
        AncestorAt(doc, b, level) # 0 /\ Below(doc, c, AncestorAt(doc, b, level))

\* C8: when the landmark section cannot be located, extract_sunday_games
\* returns the empty sequence.
C8_NoSectionNoGames ==
    (pc \in {"extracted", "both"} /\ ~Locatable(page)) =>
        section = 0 /\ games = <<>>

\* a page whose landmark lies more than SearchDepth levels below the element
\* that holds a future Sunday card
C8_Witness ==
    /\ pc = "extracted"
    /\ Landmarks(page) # {}
    /\ UpcomingCards(page) # {}
    /\ \E c \in FixtureCards(page) : page[c].card = GoodCard
    /\ today = <<2025, 7, 26>>
    /\ ~Locatable(page)
    /\ games = <<>>

\* t occurs in s
Occurs(t, s) == \E a \in 1..(Len(s) + 1) : \E b \in (a - 1)..Len(s) : SubSeq(s, a, b) = t
\* the lookup of the specification: the exact name first, then the first
\* stored name, in insertion order, that holds the query or is held by it,
\* letter case ignored
ReferenceLookup(data, q) ==
    LET exact == { i \in 1..Len(data) : data[i].team = q }
        fuzzy == { i \in 1..Len(data) :
                       Occurs(lower(q), lower(data[i].team))
                           \/ Occurs(lower(data[i].team), lower(q)) }
    IN  IF exact # {}
        THEN data[CHOOSE i \in exact : TRUE].emails
        ELSE IF fuzzy # {}
        THEN data[CHOOSE i \in fuzzy : \A j \in fuzzy : i <= j].emails
        ELSE None

\* C9: get_team_contact agrees with the reference lookup, and "rivals"
\* resolves to the entry "Rivals CC" of the scenario file.
C9_LookupIsReference ==
    pc = "looked up" =>
        /\ lookup_result = ReferenceLookup(contacts_data, query)
        /\ (contacts_file = ScenarioFile /\ query \in {RivalsCC, rivals})
               => lookup_result = <<RivalEmail>>

\* the partial, lower-case query on the scenario file
C9_Witness ==
    /\ pc = "looked up"
    /\ contacts_file = ScenarioFile
    /\ query = rivals
    /\ lookup_result = <<RivalEmail>>

Letters == UpperChars \cup LowerChars
\* the part of s after its first "@"
DomainOf(s) ==
    LET at == CHOOSE i \in 1..Len(s) : s[i] = "@" /\ \A j \in 1..(i - 1) : s[j] # "@"
    IN  SubSeq(s, at + 1, Len(s))
\* d holds a dot followed by at least two letters
HasDotExtension(d) ==
    \E j \in 1..(Len(d) - 2) : d[j] = "." /\ d[j + 1] \in Letters /\ d[j + 2] \in Letters

\* C10: the validator accepts a@b.co, rejects not-an-email, @b.co and a@b,
\* and accepts no string without "@", with an empty local part, or whose
\* domain has no dot-extension of at least two letters.
C10_ValidatorExamples ==
    pc = "validated" =>
        /\ email = <<"a","@","b",".","c","o">> => email_valid
        /\ email \in { NotAnEmail, <<"@","b",".","c","o">>, <<"a","@","b">> } => ~email_valid
        /\ email_valid =>
              /\ \E i \in 1..Len(email) : email[i] = "@"
              /\ email[1] # "@"
              /\ HasDotExtension(DomainOf(email))

\* what the claim says of one logo: with a URL and the placeholder in the
\* template, the image src is the embedded data iff the fetch answered 200,
\* and the remote URL otherwise
LogoAsClaimed(before, url, fetch, after) ==
    (url # None /\ url # "" /\ before = Placeholder) =>
        /\ (after = [kind |-> "data", of |-> url]) <=> (~fetch.raised /\ fetch.status_code = 200)
        /\ ~(~fetch.raised /\ fetch.status_code = 200) => after = [kind |-> "url", url |-> url]

\* C11: _embed_team_logos replaces each logo placeholder by the embedded data
\* iff the fetch of that logo returned 200 and by the remote URL on any other
\* status or on an exception; whatever the fetches did, a draft that the
\* template, the service and the API allow is created, and carries those logos.
C11_LogoFallback ==
    /\ pc = "embedded" =>
          /\ LogoAsClaimed(template.opponent_logo, game_info.opponent_logo,
                           met[1].fetch_opponent, embedded.opponent_logo)
          /\ LogoAsClaimed(template.sparta_logo, game_info.sparta_logo,
                           met[1].fetch_sparta, embedded.sparta_logo)
    /\ (pc = "drafted" /\ service /\ template # NoneDict /\ game_info # NoneDict
            /\ ~met[1].api_error) =>
          /\ drafted.ret
          /\ Len(gmail_requests) = 1
          /\ LogoAsClaimed(template.opponent_logo, game_info.opponent_logo,
                           met[1].fetch_opponent, gmail_requests[1].message.html.opponent_logo)
          /\ LogoAsClaimed(template.sparta_logo, game_info.sparta_logo,
                           met[1].fetch_sparta, gmail_requests[1].message.html.sparta_logo)

\* a draft was created although the opponent's logo answered 404 and the
\* fetch of the own logo raised: it carries the two remote URLs
C11_Witness ==
    /\ pc = "drafted"
    /\ drafted.ret
    /\ template = EMAIL_TEMPLATE
    /\ game_info = GoodGame
    /\ met[1].fetch_opponent = [raised |-> FALSE, status_code |-> 404]
    /\ met[1].fetch_sparta.raised
    /\ Len(account.drafts) = 1
    /\ account.drafts[1].html.opponent_logo = [kind |-> "url", url |-> "logo2.jpg"]
    /\ account.drafts[1].html.sparta_logo = [kind |-> "url", url |-> "logo1.png"]

\* C12: draft_game_invitation lets no exception out and returns a boolean;
\* it returns True exactly when the call left exactly one new draft in the
\* account; with the template unreadable or the API request raising it
\* returns False and leaves no draft; with the service set, the template
\* read, a game record, recipients and the API answering, it returns True.
C12_DraftContract ==
    pc = "drafted" =>
        /\ ~drafted.escaped
        /\ drafted.ret \in BOOLEAN
        /\ Len(gmail_requests) <= 1
        /\ account.sent = <<>>
        /\ drafted.ret <=> Len(account.drafts) = 1
        /\ ~drafted.ret => account.drafts = <<>>
        /\ (template = NoneDict \/ met[1].api_error) =>
              (~drafted.ret /\ account.drafts = <<>>)
        /\ (service /\ template # NoneDict /\ game_info # NoneDict
               /\ recipients # <<>> /\ ~met[1].api_error) => drafted.ret

\* the API request was made and raised: the call returned False and the
\* account holds no draft
C12_Witness ==
    /\ pc = "drafted"
    /\ service
    /\ template = EMAIL_TEMPLATE
    /\ game_info = GoodGame
    /\ recipients = <<RivalEmail>>
    /\ met[1].api_error
    /\ Len(gmail_requests) = 1
    /\ ~drafted.ret
    /\ account.drafts = <<>>

\* the i-th game of the run got as far as draft_game_invitation and its
\* logo downloads
ReachedLogos(i) ==
    /\ ~met[i].raises
    /\ get_team_contact(contacts_data, games[i].opponent) # None
    /\ template # NoneDict
HasUrl(url) == url # None /\ url # ""
\* a download of a logo of the i-th game raised
LogoFetchRaised(i) ==
    /\ ReachedLogos(i)
    /\ \/ HasUrl(games[i].opponent_logo) /\ met[i].fetch_opponent.raised
       \/ HasUrl(games[i].sparta_logo) /\ met[i].fetch_sparta.raised
\* the position, among the requests of the run, of the request of game i
RequestOf(i) == Cardinality({ j \in 1..i : ReachedLogos(j) /\ service })
\* every game was handed to _process_game, whatever the others met
NoneAborted ==
    /\ ~escaped
    /\ pc = "loop" => Len(processed) = idx - 1 /\ Len(outcomes) = idx - 1
    /\ pc = "done" => Len(processed) = Len(games) /\ Len(outcomes) = Len(games)

\* C13, as stated: a game whose logo download raised is reported as failed,
\* and the other games are processed all the same.
C13_LogoFailureFailsGame ==
    /\ \A i \in 1..Len(outcomes) : LogoFetchRaised(i) => ~outcomes[i]
    /\ NoneAborted

\* C13, amended: a game whose logo download raised is not failed for it: the
\* placeholder of that logo carries the remote URL, and the game succeeds
\* exactly when the service is set and the draft request does not raise;
\* the other games are processed all the same.
C13_LogoFailureIsTolerated ==
    /\ \A i \in 1..Len(outcomes) :
          LogoFetchRaised(i) =>
              /\ outcomes[i] <=> (service /\ ~met[i].api_error)
              /\ service =>
                    LET html == gmail_requests[RequestOf(i)].message.html IN
                    /\ (HasUrl(games[i].opponent_logo) /\ met[i].fetch_opponent.raised)
                          => html.opponent_logo = [kind |-> "url", url |-> games[i].opponent_logo]
                    /\ (HasUrl(games[i].sparta_logo) /\ met[i].fetch_sparta.raised)
                          => html.sparta_logo = [kind |-> "url", url |-> games[i].sparta_logo]
    /\ NoneAborted

\* the logo downloads of the first of two games raised: its draft was
\* created, and the second game was processed
C13_Witness ==
    /\ pc = "done"
    /\ Len(games) = 2
    /\ LogoFetchRaised(1)
    /\ outcomes[1]
    /\ processed = <<1, 2>>
    /\ Len(account.drafts) >= 1
    /\ account.drafts[1].html.opponent_logo = [kind |-> "url", url |-> games[1].opponent_logo]

\* day 1 (0001-01-01) is a Monday, so the Tuesdays are the ordinals 2 mod 7
IsTuesday(dt) == toordinal(dt) % 7 = 2

\* C14: for every game date, calculate_send_date returns 19:00 on a Tuesday
\* that lies 1 to 7 days before the game date: 5 days before a Sunday game,
\* 7 days before a game that is itself on a Tuesday.
C14_TuesdayBefore ==
    pc = "dated" =>
        /\ send_date # NoneDict
        /\ IsTuesday(send_date.date)
        /\ send_date.hour = 19 /\ send_date.minute = 0
        /\ LET n == toordinal(game_info.date) - toordinal(send_date.date) IN
              /\ n \in 1..7
              /\ IsSunday(game_info.date) => n = 5
              /\ IsTuesday(game_info.date) => n = 7

\* a game on Tuesday 5 March 2024: the Tuesday before it is 27 February,
\* across the 29th
C14_Witness ==
    /\ pc = "dated"
    /\ game_info.date = <<2024, 3, 5>>
    /\ IsTuesday(game_info.date)
    /\ send_date = [date |-> <<2024, 2, 27>>, hour |-> 19, minute |-> 0]

\* the real team names of a card: its link texts, stripped, without the
\* empty ones and the placeholders "v", "vs", "versus" in any letter case
IsRealName(link) ==
    /\ strip(link) # <<>>
    /\ lower(strip(link)) \notin { <<"v">>, <<"v","s">>, <<"v","e","r","s","u","s">> }
RealNames(card) ==
    LET kept == SelectSeq(card.links, IsRealName) IN [i \in 1..Len(kept) |-> strip(kept[i])]
IsOwn(name) == lower(name) = lower(TEAM_NAME)
\* the card of the scenario with the own team in lower case, a "Vs" link
\* between the two teams and blanks around the opponent
LowerCard == Card(Sunday, <<"3">>, Aug2025,
                  <<lower(TEAM_NAME), <<"V","s">>, <<" ">> \o RivalsCC \o <<" ">> >>,
                  <<"logo1.png", "logo2.jpg">>)

\* C15: the card of the scenario parses to opponent "Rivals CC", date
\* 2025-07-27, the second image as the opponent's logo and the first as the
\* own logo; in every record of a card of that shape (the own team, in any
\* letter case, and one other team, in either order) the logos are those at
\* the positions of the two team names.
C15_ScenarioCard ==
    pc \in {"parsed", "both"} =>
        LET card  == page[entry].card
            names == RealNames(card)
        IN  /\ card = GoodCard =>
                  entry_info = [opponent |-> RivalsCC, date |-> <<2025, 7, 27>>,
                                opponent_logo |-> "logo2.jpg", sparta_logo |-> "logo1.png"]
            /\ card = LowerCard =>
                  entry_info = [opponent |-> RivalsCC, date |-> <<2025, 8, 3>>,
                                opponent_logo |-> "logo2.jpg", sparta_logo |-> "logo1.png"]
            /\ (entry_info # NoneDict /\ Len(names) = 2) =>
                  \A i \in 1..2 :
                      (IsOwn(names[i]) /\ ~IsOwn(names[3 - i])) =>
                          /\ entry_info.opponent = names[3 - i]
                          /\ 3 - i <= Len(card.imgs)
                          /\ entry_info.opponent_logo = card.imgs[3 - i]
                          /\ entry_info.sparta_logo =
                                 IF i <= Len(card.imgs) THEN card.imgs[i] ELSE None

\* the card of the scenario was parsed
C15_Witness ==
    /\ pc = "parsed"
    /\ page[entry].card = GoodCard
    /\ entry_info.opponent = RivalsCC
    /\ entry_info.date = <<2025, 7, 27>>
    /\ entry_info.opponent_logo = "logo2.jpg"
    /\ entry_info.sparta_logo = "logo1.png"

\* C16: the opponent of every record differs from the own team's name,
\* letter case ignored, and a card whose real team names are all the own
\* team yields no record.
C16_OpponentIsNotOwnTeam ==
    /\ \A i \in 1..Len(games) : ~IsOwn(games[i].opponent)
    /\ pc \in {"parsed", "both"} =>
          /\ entry_info # NoneDict => ~IsOwn(entry_info.opponent)
          /\ (\A i \in 1..Len(RealNames(page[entry].card)) :
                  IsOwn(RealNames(page[entry].card)[i]))
                => entry_info = NoneDict

\* a card with a good date, two logos and the own team twice gave no record
C16_Witness ==
    /\ pc = "parsed"
    /\ entry_date # None
    /\ page[entry].card.links = <<TEAM_NAME, TEAM_NAME>>
    /\ page[entry].card.imgs = <<"logo1.png", "logo2.jpg">>
    /\ entry_info = NoneDict

\* C20, as stated: a card yields a record only if its real team names are
\* exactly the own team and exactly one opponent.
C20_ExactlyOneOpponent ==
    (pc \in {"parsed", "both"} /\ entry_info # NoneDict) =>
        LET names == RealNames(page[entry].card) IN
        /\ Len(names) = 2
        /\ \E i \in 1..2 : IsOwn(names[i]) /\ ~IsOwn(names[3 - i])

\* the comma-separated items of a reply, stripped
ItemsOf(text) ==
    LET parts == split_on(strip(text), ",") IN [i \in 1..Len(parts) |-> strip(parts[i])]

\* C17: extract_team_contact lets no exception out and returns None or a
\* non-empty list of items of the reply that pass the validator; it returns
\* None when the contacts file is unreadable, when the model call failed or
\* gave an empty reply, when the reply is NOT_FOUND in any letter case, and
\* when no item of the reply passes the validator.
C17_LLMNeverRaises ==
    pc = "answered" =>
        LET ret == llm_result.ret IN
        /\ ~llm_result.raised
        /\ ret # None =>
              /\ ret # <<>>
              /\ \A i \in 1..Len(ret) :
                    /\ _is_valid_email(ret[i])
                    /\ \E k \in 1..Len(ItemsOf(reply.text)) : ItemsOf(reply.text)[k] = ret[i]
        /\ contacts_file = NoText => ret = None
        /\ reply.kind # "text" => ret = None
        /\ (reply.kind = "text" /\ strip(reply.text) = <<>>) => ret = None
        /\ (reply.kind = "text" /\ lower(strip(reply.text)) = lower(NOT_FOUND)) => ret = None
        /\ (reply.kind = "text"
               /\ \A k \in 1..Len(ItemsOf(reply.text)) : ~_is_valid_email(ItemsOf(reply.text)[k]))
              => ret = None

\* a reply of two items, neither of which is an address: not found
C17_Witness ==
    /\ pc = "answered"
    /\ contacts_file = ScenarioFile
    /\ reply = [kind |-> "text", text |-> join(<<NotAnEmail, <<"a","@","b">> >>, ",")]
    /\ ~llm_result.raised
    /\ llm_result.ret = None

\* the construction of the mail service failed: the OAuth flow was needed
\* and raised, or build() raised
AuthFailed(a) ==
    LET flow_needed == \/ a.token \in {"absent", "unreadable"}
                       \/ a.token = "refreshable" /\ ~a.refresh_ok
    IN  (flow_needed /\ ~a.flow_ok) \/ ~a.build_ok

\* C18: when authentication or the construction of the service failed at
\* startup, no request is made to the mail API for any game, every game is
\* reported as failed without an exception, and run() returns False when
\* there is at least one game.
C18_NoServiceNoDrafts ==
    (pc # "new" /\ AuthFailed(auth)) =>
        /\ ~service
        /\ gmail_requests = <<>>
        /\ account = EmptyAccount
        /\ ~escaped
        /\ \A i \in 1..Len(outcomes) : ~outcomes[i]
        /\ (pc = "done" /\ games # <<>>) =>
              (~result /\ Len(outcomes) = Len(games))

\* the OAuth flow failed; both games of the page have a template and the
\* first a contact, and both were reported as failed
C18_Witness ==
    /\ pc = "done"
    /\ auth.token = "absent" /\ ~auth.flow_ok
    /\ contacts_file = ScenarioFile
    /\ template = EMAIL_TEMPLATE
    /\ Len(games) = 2
    /\ games[1].opponent = RivalsCC
    /\ ~met[1].raises /\ ~met[1].api_error
    /\ outcomes = <<FALSE, FALSE>>
    /\ ~result

\* day 1 (0001-01-01) is a Monday, so the Saturdays are the ordinals 6 mod 7
IsSaturday(dt) == toordinal(dt) % 7 = 6

RECURSIVE Numeral(_)
Numeral(n) ==
    IF n < 10 THEN <<DigitSeq[n + 1]>>
    ELSE Numeral(n \div 10) \o <<DigitSeq[(n % 10) + 1]>>
\* text, blanks around it aside, is a numeral of n, leading zeros allowed
Spells(text, n) ==
    \E z \in 0..Len(text) : strip(text) = [i \in 1..z |-> "0"] \o Numeral(n)
PropYears == {2024, 2025, 2026}
\* the calendar dates the day and month-year texts of a card spell: a day
\* numeral, one of the twelve abbreviations and a year numeral, the day
\* existing in that month
SpelledDates(card) ==
    IF ~card.sch_time \/ card.h2 = NoText \/ card.h5 = NoText THEN {}
    ELSE LET tokens == split_ws(card.h5) IN
         IF Len(tokens) # 2 THEN {}
         ELSE { dt \in { <<y, m, d>> : y \in PropYears,
                                       m \in { n \in 1..12 : MonthNames[n] = tokens[1] },
                                       d \in 1..31 } :
                    /\ dt[3] <= days_in_month(dt[1], dt[2])
                    /\ Spells(card.h2, dt[3])
                    /\ Spells(tokens[2], dt[1]) }

\* a card lacks a sub-element the parser needs
MissingSubElement(card) ==
    \/ ~card.sch_time \/ card.h4 = NoText \/ card.h2 = NoText \/ card.h5 = NoText
    \/ ~card.schedule_text \/ ~card.h3 \/ ~card.schedule_logo
\* the date a card spells falls on another weekday than its label names
WeekdayMismatch(card) ==
    /\ card.h4 # NoText
    /\ \E dt \in SpelledDates(card) : ActualWeekdayName(dt) # strip(card.h4)
\* the failures to parse that the extraction must survive
FailsToParse(card) ==
    \/ MissingSubElement(card)
    \/ WeekdayMismatch(card)
    \/ Len(RealNames(card)) < 2

\* the cards below the located section, and those of them whose record
\* passes the future-Sunday filter
SectionCards(doc, sec) == { k \in FixtureCards(doc) : Below(doc, k, sec) }
Survivors(doc, sec, day) ==
    { k \in SectionCards(doc, sec) :
          LET r == _parse_game_entry(doc[k].card) IN
          r # NoneDict /\ IsAfter(r.date, day) /\ IsSunday(r.date) }

\* C21: a card that fails to parse (a missing sub-element, a weekday
\* mismatch, fewer than two real team names) contributes nothing and stops
\* nothing: extract_sunday_games returns exactly the records of the section's
\* cards that parse and pass the future-Sunday filter, in page order, however
\* many cards were skipped and wherever they stand.
C21_SkipUnparsable ==
    (pc \in {"extracted", "both"} /\ section # 0) =>
        LET kept == Survivors(page, section, today) IN
        /\ Len(games) = Cardinality(kept)
        /\ \A k \in kept :
              games[Cardinality({ j \in kept : j <= k })] = _parse_game_entry(page[k].card)
        /\ \A k \in SectionCards(page, section) :
              FailsToParse(page[k].card) =>
                  /\ _parse_game_entry(page[k].card) = NoneDict
                  /\ k \notin kept

\* a card without its team names stands before a future Sunday card, and the
\* record of the latter is the whole result
C21_Witness ==
    /\ pc = "extracted"
    /\ \E k \in SectionCards(page, section) :
          /\ FailsToParse(page[k].card)
          /\ \E j \in SectionCards(page, section) : j > k /\ page[j].card = AugCard
    /\ Len(games) = 1
    /\ games[1].opponent = TitansCC

\* the date block of a card is complete and its texts spell no calendar
\* date: the day or the year is no numeral, the month-year text is not two
\* tokens, the day does not exist in the month, or the month is none of the
\* twelve abbreviations
MalformedDate(card) ==
    /\ card.sch_time
    /\ card.h4 # NoText /\ card.h2 # NoText /\ card.h5 # NoText
    /\ SpelledDates(card) = {}

\* C22, as stated: a card with a malformed date yields no date and no game
\* record.
C22_MalformedDateSkipped ==
    (pc \in {"parsed", "both"} /\ MalformedDate(page[entry].card)) =>
        /\ entry_date = None
        /\ entry_info = NoneDict

\* the value json.loads builds from the text of DumpDict(entries): the last
\* entry of a team holds
RECURSIVE MappingOf(_, _)
MappingOf(entries, acc) ==
    IF entries = <<>> THEN PyDict(acc)
    ELSE LET e    == Head(entries)
             list == PyList([i \in 1..Len(e.emails) |-> PyStr(e.emails[i])])
         IN  MappingOf(Tail(entries),
                 IF \E i \in 1..Len(acc) : acc[i].key = e.team
                 THEN [i \in 1..Len(acc) |->
                          IF acc[i].key = e.team THEN [key |-> e.team, value |-> list]
                          ELSE acc[i]]
                 ELSE Append(acc, [key |-> e.team, value |-> list]))

\* C23, as stated: get_all_team_contacts never raises; what it returns is a
\* mapping, the one the reply spells when the reply is a JSON object of teams,
\* and the empty one when the file is unreadable or empty or the call failed.
C23_AllContactsNeverRaises ==
    pc = "listed" =>
        /\ ~llm_contacts.raised
        /\ llm_contacts.ret.type = "dict"
        /\ (contacts_file \in {NoText, <<>>} \/ reply.kind # "text")
              => llm_contacts.ret = PyDict(<<>>)
        /\ \A m \in JsonMappings :
              (contacts_file = ScenarioFile /\ reply = [kind |-> "text", text |-> DumpDict(m)])
                  => llm_contacts.ret = MappingOf(m, <<>>)

\* the email addresses in a returned mapping: the strings of the lists that
\* are the values of its pairs
ReturnedEmails(mapping) ==
    { mapping.pairs[i].value.items[j].chars :
          <<i, j>> \in { p \in (1..Len(mapping.pairs)) \X (1..MaxItems + 1) :
                             /\ mapping.pairs[p[1]].value.type = "list"
                             /\ p[2] <= Len(mapping.pairs[p[1]].value.items)
                             /\ mapping.pairs[p[1]].value.items[p[2]].type = "str" } }

\* C24, as stated: every email address the contact directory returns passes
\* the validator: the stored lists and the lookup result of the parser, the
\* list of extract_team_contact, and the lists of the mapping of
\* get_all_team_contacts of the LLM extractor.
C24_ReturnedEmailsAreValid ==
    /\ \A i \in 1..Len(contacts_data) : \A j \in 1..Len(contacts_data[i].emails) :
          _is_valid_email(contacts_data[i].emails[j])
    /\ (pc = "looked up" /\ lookup_result # None) =>
          \A j \in 1..Len(lookup_result) : _is_valid_email(lookup_result[j])
    /\ (pc = "answered" /\ ~llm_result.raised /\ llm_result.ret # None) =>
          \A j \in 1..Len(llm_result.ret) : llm_is_valid_email(llm_result.ret[j])
    /\ (pc = "listed" /\ ~llm_contacts.raised /\ llm_contacts.ret.type = "dict") =>
          \A e \in ReturnedEmails(llm_contacts.ret) : llm_is_valid_email(e)

\* C25: once the table is loaded, no step changes it: a lookup (exact,
\* partial or failed), list_all_teams, get_all_team_contacts, and the
\* per-game step with its draft all leave every stored team and every
\* stored email list as they were.
C25_TableIsReadOnly ==
    [][pc # "new" => contacts_data' = contacts_data]_vars

\* after a partial-match lookup and a game drafted for the stored team, the
\* table is still the one loaded from the file
C25_Witness ==
    /\ pc = "used"
    /\ contacts_file = ScenarioFile
    /\ query = rivals
    /\ lookup_result = <<RivalEmail>>
    /\ lookups = <<RivalsCC>>
    /\ drafted = [ret |-> TRUE, escaped |-> FALSE]
    /\ Len(account.drafts) = 1
    /\ contacts_data = << [team |-> RivalsCC, emails |-> <<RivalEmail>>] >>

\* the whole of s is local-part "@" domain "." extension, in the character
\* classes of the pattern
WholeAddress(s) ==
    \E i \in 1..Len(s) : \E j \in (i + 2)..Len(s) :
        /\ \A p \in 1..i : s[p] \in LocalChars
        /\ s[i + 1] = "@"
        /\ \A p \in (i + 2)..j : s[p] \in DomainChars
        /\ j + 3 <= Len(s)
        /\ s[j + 1] = "."
        /\ \A p \in (j + 2)..Len(s) : s[p] \in ExtChars

\* C26, as stated: the validator accepts a string only if the whole of it is
\* an address; an address followed by a blank and a comment, or by a comma
\* and a second address, is rejected.
C26_WholeStringOnly ==
    pc = "validated" =>
        /\ email_valid => WholeAddress(email)
        /\ email = ABCo \o <<" ","(","c","a","p","t","a","i","n",")">> => ~email_valid
        /\ email = ABCo \o <<",">> \o RivalEmail => ~email_valid

\* every game is handed to per-game processing at most once and in order,
\* no card gives more than one game, a section that yields games lies within
\* SearchDepth levels of a landmark, no exception leaves the run, and the
\* result of a finished run is a boolean
NothingRetried ==
    /\ \A i \in 1..Len(processed) : processed[i] = i
    /\ Len(processed) <= Len(games)
    /\ Len(outcomes) <= Len(processed)
    /\ Len(games) <= Cardinality(FixtureCards(page))
    /\ games # <<>> => Locatable(page)
    /\ ~escaped
    /\ pc = "done" => result \in BOOLEAN

\* C27: run(), once entered, ends, with a boolean result; the ascent from a landmark
\* stops within SearchDepth levels, each card and each game is visited once
\* and no step is taken again.
C27_RunTerminates ==
    ((pc = "start") ~> (pc = "done")) /\ []NothingRetried

\* a finished run that met a failing game and whose landmark lay at the
\* last level the ascent reaches
C27_Witness ==
    /\ pc = "done"
    /\ Len(page) > SearchDepth
    /\ Len(games) = 2
    /\ processed = <<1, 2>>
    /\ outcomes = <<FALSE, TRUE>>
    /\ result

\* the games counted as a success, in the order of the loop
RECURSIVE SuccessesUpTo(_)
SuccessesUpTo(n) ==
    IF n = 0 THEN <<>>
    ELSE SuccessesUpTo(n - 1) \o (IF outcomes[n] THEN <<processed[n]>> ELSE <<>>)
Successes == SuccessesUpTo(Len(outcomes))

\* C28: the drafts of a run are those of the games counted as a success, one
\* each and in the order of the loop; there are no more of them than games
\* extracted, a game counted as failed has none, and every game handed to
\* per-game processing is a Sunday game, so that none is counted as a success
\* by the Saturday branch.
C28_DraftsMatchSuccesses ==
    /\ Len(outcomes) <= Len(processed)
    /\ success_count = Len(Successes)
    /\ Len(account.drafts) = success_count
    /\ success_count <= Len(games)
    /\ \A k \in 1..Len(Successes) :
          k <= Len(account.drafts) =>
              account.drafts[k].subject = SUBJECT_PREFIX \o games[Successes[k]].opponent
    /\ \A i \in 1..Len(games) : weekday(games[i].date) = 6
    /\ account.sent = <<>>

\* a finished run of two games: the first was drafted, the Gmail request of
\* the second raised
C28_Witness ==
    /\ pc = "done"
    /\ Len(games) = 2
    /\ outcomes = <<TRUE, FALSE>>
    /\ Len(gmail_requests) = 2
    /\ gmail_requests[2].failed
    /\ Len(account.drafts) = 1
    /\ success_count = 1

\* C29: when the request for the fixtures page fails, by a transport error
\* or by an HTTP error status, the run returns False and has extracted no
\* fixture, looked up no contact and sent no request to Gmail.
C29_FetchFailureEndsRun ==
    fetch_outcome \in {"transport error", "http error"} =>
        /\ pc = "done"
        /\ result = FALSE
        /\ soup = <<>>
        /\ games = <<>>
        /\ processed = <<>>
        /\ lookups = <<>>
        /\ gmail_requests = <<>>
        /\ account = EmptyAccount

\* the site answered with an error status for a page that lists two games,
\* with the contacts loaded and the Gmail service built
C29_Witness ==
    /\ fetch_outcome = "http error"
    /\ pc = "done"
    /\ ~result
    /\ page = MkPage(<<Section(2, 1, UPCOMING_MATCHES, <<GoodCard, AugCard>>)>>)
    /\ contacts_data # <<>>
    /\ service

=============================================================================
